---- MODULE Spec2Model ----
(***************************************************************************)
(* A model of the mini-lsm storage engine: the memtable, the block and    *)
(* SST builders, the block/SST/merge/bounded iterators, and the storage   *)
(* state with its put/delete/get/scan/freeze/flush operations.            *)
(*                                                                         *)
(* Byte strings are sequences of naturals below 256.  An Option<T> is a   *)
(* sequence of length 0 (None) or 1 (Some).                               *)
(***************************************************************************)
EXTENDS Integers, Sequences, FiniteSets, TLC

\* ------------------------------------------------------------------------
\* Bounds and input sets
\* ------------------------------------------------------------------------

\* number of client operations explored in one behaviour
MaxOps == 5

\* largest id the shared counter hands out
MaxId == 3

\* keys the clients use (byte strings, in ascending order)
Keys == { <<1, 1>>, <<2>>, <<3>> }

\* non-empty values the clients write
Values == { <<1>>, <<2>> }

\* values of options.sst_max_size_bytes the store is opened with
SstMaxSizes == { 2, 7 }

\* values of options.block_max_size_bytes the store is opened with
BlockMaxSizes == { 4, 21 }

\* the keys a bloom filter answers "maybe" for besides the keys it was built
\* from: none, or every key
BloomFalsePositives == { {}, Keys }

\* options.num_memtables_limit of StorageStateOptions::new_with_defaults
DefaultNumMemtablesLimit == 3

\* ------------------------------------------------------------------------
\* Options, bytes, keys and key-value pairs
\* ------------------------------------------------------------------------

None == << >>

Some(x) == << x >>

TOMBSTONE == << >>

\* Ord for Bytes: unsigned lexicographic order
RECURSIVE BytesLess(_, _)
BytesLess(a, b) ==
    IF b = << >> THEN FALSE
    ELSE IF a = << >> THEN TRUE
    ELSE IF a[1] # b[1] THEN a[1] < b[1]
    ELSE BytesLess(Tail(a), Tail(b))

BytesLeq(a, b) == a = b \/ BytesLess(a, b)

\* TimestampedKey::new: the timestamp is always zero
NewTimestampedKey(key) == [key |-> key, timestamp_ms |-> 0]

\* Ord for TimestampedKey: key ascending, then larger timestamp first
TimestampedKeyLess(x, y) ==
    \/ BytesLess(x.key, y.key)
    \/ x.key = y.key /\ y.timestamp_ms < x.timestamp_ms

KeyValuePair(key, value) == [key |-> NewTimestampedKey(key), value |-> value]

\* derived Ord for KeyValuePair: by key, then by value
KeyValuePairLess(x, y) ==
    \/ TimestampedKeyLess(x.key, y.key)
    \/ x.key = y.key /\ BytesLess(x.value, y.value)

\* u16::to_be_bytes
U16ToBeBytes(n) == << (n \div 256) % 256, n % 256 >>

\* u16::from_be_bytes on data[at .. at + 2), at a 0-based offset
U16FromBeBytes(data, at) == data[at + 1] * 256 + data[at + 2]

\* data[from .. to) with 0-based offsets
Slice(data, from, to) == SubSeq(data, from + 1, to)

\* ------------------------------------------------------------------------
\* MemTable
\* ------------------------------------------------------------------------

NewMemTable(id) ==
    [id |-> id, entries |-> << >>, size_bytes |-> 0, mutable |-> TRUE]

MemTableGet(memtable, key) ==
    IF key \in DOMAIN memtable.entries
    THEN Some(memtable.entries[key])
    ELSE None

\* SkipMap::insert replaces an existing entry
MemTableInsert(memtable, key, value) ==
    [memtable EXCEPT
       !.entries = [k \in (DOMAIN memtable.entries) \cup {key} |->
                      IF k = key THEN value ELSE memtable.entries[k]]]

\* size_bytes.fetch_add: the size counter only grows
MemTableAddSize(memtable, key, value) ==
    [memtable EXCEPT !.size_bytes = memtable.size_bytes + Len(key) + Len(value)]

MemTablePut(memtable, key, value) ==
    IF ~memtable.mutable
    THEN [ok |-> FALSE, memtable |-> memtable]
    ELSE [ok |-> TRUE,
          memtable |-> MemTableAddSize(MemTableInsert(memtable, key, value),
                                       key, value)]

\* variant: freeze reports success and leaves the memtable writable
MemTableFreezeLeavesMutable(memtable) ==
    [ok |-> memtable.mutable, memtable |-> memtable]

MemTableFreeze(memtable) ==
    IF memtable.mutable
    THEN [ok |-> TRUE, memtable |-> [memtable EXCEPT !.mutable = FALSE]]
    ELSE [ok |-> FALSE, memtable |-> memtable]

InLowerBound(key, lower) ==
    CASE lower.kind = "Included" -> BytesLeq(lower.key, key)
      [] lower.kind = "Excluded" -> BytesLess(lower.key, key)
      [] OTHER -> TRUE

InUpperBound(key, upper) ==
    CASE upper.kind = "Included" -> BytesLeq(key, upper.key)
      [] upper.kind = "Excluded" -> BytesLess(key, upper.key)
      [] OTHER -> TRUE

MinKey(S) == CHOOSE k \in S : \A o \in S : BytesLeq(k, o)

RECURSIVE SortedKeys(_)
SortedKeys(S) ==
    IF S = {} THEN << >>
    ELSE LET m == MinKey(S) IN << m >> \o SortedKeys(S \ {m})

\* MemTableIterator: the remaining entries of map.range(bound), in key order
NewMemTableIterator(memtable, lower, upper) ==
    LET dom == { k \in DOMAIN memtable.entries :
                   InLowerBound(k, lower) /\ InUpperBound(k, upper) }
        ks == SortedKeys(dom)
    IN [type |-> "memtable",
        rest |-> [i \in 1..Len(ks) |-> KeyValuePair(ks[i], memtable.entries[ks[i]])]]

\* ------------------------------------------------------------------------
\* Block builder and block codec
\* ------------------------------------------------------------------------

NewBlockBuilder(block_size) ==
    [data |-> << >>, offsets |-> << >>, current_offset |-> 0,
     block_size |-> block_size, first_key |-> << >>]

BlockBuilderIsEmpty(bb) == Len(bb.data) = 0

GetBlockSize(bb) == Len(bb.data) + 2 * Len(bb.offsets) + 2

GetBlockSizeWithKv(bb, kv) ==
    LET block_size == GetBlockSize(bb)
    IN IF block_size = 0
       THEN 2 + Len(kv.key.key) + 2 + Len(kv.value) + 2
       ELSE block_size + 4 + Len(kv.key.key) + 2 + Len(kv.value) + 2

\* variant: the common prefix is taken to be as long as the shorter key
KeyOverlapLenOfShorter(key, first_key) ==
    IF Len(key) < Len(first_key) THEN Len(key) ELSE Len(first_key)

\* length of the common prefix of key and first_key
RECURSIVE KeyOverlapLen(_, _)
KeyOverlapLen(key, first_key) ==
    IF key = << >> \/ first_key = << >> \/ key[1] # first_key[1]
    THEN 0
    ELSE 1 + KeyOverlapLen(Tail(key), Tail(first_key))

BlockBuilderAdd(bb, kv) ==
    IF ~BlockBuilderIsEmpty(bb) /\ GetBlockSizeWithKv(bb, kv) > bb.block_size
    THEN [ok |-> FALSE, bb |-> bb]
    ELSE
      LET key == kv.key.key
          is_first == bb.first_key = << >>
          key_overlap_len == KeyOverlapLen(key, bb.first_key)
          rest_key_len == Len(key) - key_overlap_len
          key_as_bytes ==
              IF is_first
              THEN U16ToBeBytes(Len(key)) \o key
              ELSE U16ToBeBytes(key_overlap_len) \o U16ToBeBytes(rest_key_len)
                     \o Slice(key, key_overlap_len, Len(key))
          kv_as_bytes == key_as_bytes \o U16ToBeBytes(Len(kv.value)) \o kv.value
      IN [ok |-> TRUE,
          bb |-> [bb EXCEPT
                    !.first_key = IF is_first THEN key ELSE bb.first_key,
                    !.offsets = Append(bb.offsets, bb.current_offset),
                    !.current_offset = bb.current_offset + Len(kv_as_bytes),
                    !.data = bb.data \o kv_as_bytes]]

BlockBuilderBuild(bb) ==
    [data |-> bb.data, offsets |-> bb.offsets,
     end_of_data_offset |-> bb.current_offset]

RECURSIVE OffsetsToBytes(_)
OffsetsToBytes(offsets) ==
    IF offsets = << >> THEN << >>
    ELSE U16ToBeBytes(Head(offsets)) \o OffsetsToBytes(Tail(offsets))

BlockEncode(block) ==
    block.data \o OffsetsToBytes(block.offsets)
               \o U16ToBeBytes(block.end_of_data_offset)

BlockDecode(encoded_block) ==
    LET encoded_block_size == Len(encoded_block)
        end_of_data_offset == U16FromBeBytes(encoded_block, encoded_block_size - 2)
        offsets_bytes == Slice(encoded_block, end_of_data_offset, encoded_block_size - 2)
    IN [data |-> Slice(encoded_block, 0, end_of_data_offset),
        offsets |-> [i \in 1..(Len(offsets_bytes) \div 2) |->
                       U16FromBeBytes(offsets_bytes, 2 * (i - 1))],
        end_of_data_offset |-> end_of_data_offset]

\* the key of the first entry, stored uncompressed at the start of the data
BlockGetFirstKey(block) ==
    IF Len(block.data) < 2 THEN << >>
    ELSE Slice(block.data, 2, 2 + U16FromBeBytes(block.data, 0))

\* ------------------------------------------------------------------------
\* Block iterator
\* ------------------------------------------------------------------------

ParseCurrentKv(block, first_key, current_index) ==
    IF current_index = Len(block.offsets) THEN None
    ELSE
      LET current_offset == block.offsets[current_index + 1]
          key_size == U16FromBeBytes(block.data, current_offset)
          key_overlap_len == U16FromBeBytes(block.data, current_offset)
          rest_key_len == U16FromBeBytes(block.data, current_offset + 2)
          key_contents_offset ==
              IF current_index = 0 THEN current_offset + 2 ELSE current_offset + 4
          key_vec ==
              IF current_index = 0
              THEN Slice(block.data, key_contents_offset, key_contents_offset + key_size)
              ELSE Slice(first_key, 0, key_overlap_len)
                     \o Slice(block.data, key_contents_offset,
                              key_contents_offset + rest_key_len)
          value_contents_offset ==
              IF current_index = 0
              THEN key_contents_offset + key_size + 2
              ELSE key_contents_offset + rest_key_len + 2
          value_size == U16FromBeBytes(block.data, value_contents_offset - 2)
      IN Some(KeyValuePair(key_vec,
                Slice(block.data, value_contents_offset,
                      value_contents_offset + value_size)))

BlockIteratorAt(block, first_key, index) ==
    [block |-> block, current_index |-> index,
     current_kv |-> ParseCurrentKv(block, first_key, index),
     first_key |-> first_key]

BlockIteratorCreateAndSeekToFirst(block) ==
    BlockIteratorAt(block, BlockGetFirstKey(block), 0)

\* the binary search of seek_to_key, from the bounds (lo, hi)
RECURSIVE BlockSeekLoop(_, _, _, _)
BlockSeekLoop(it, key, lo, hi) ==
    LET mid == (lo + hi) \div 2
        at_mid == BlockIteratorAt(it.block, it.first_key, mid)
    IN IF lo < hi
       THEN LET raw_key == at_mid.current_kv[1].key.key
            IN IF BytesLess(raw_key, key.key)
               THEN BlockSeekLoop(at_mid, key, mid + 1, hi)
               ELSE IF BytesLess(key.key, raw_key)
               THEN BlockSeekLoop(at_mid, key, lo, mid)
               ELSE at_mid
       ELSE at_mid

BlockIteratorSeekToKey(it, key) ==
    BlockSeekLoop(it, key, 0, Len(it.block.offsets) - 1)

BlockIteratorCreateAndSeekToKey(block, key) ==
    BlockIteratorSeekToKey(
        [block |-> block, current_index |-> 0, current_kv |-> None,
         first_key |-> BlockGetFirstKey(block)], key)

BlockIteratorPeek(it) == it.current_kv

BlockIteratorNext(it) ==
    IF it.current_kv = None
    THEN [it |-> it, res |-> None]
    ELSE [it |-> BlockIteratorAt(it.block, it.first_key, it.current_index + 1),
          res |-> it.current_kv]

\* ------------------------------------------------------------------------
\* SST builder, bloom filter and SST
\* ------------------------------------------------------------------------

NewSSTBuilder(block_size) ==
    [block_builder |-> NewBlockBuilder(block_size),
     block_meta_list |-> << >>,
     block_size |-> block_size,
     block_data |-> << >>,
     meta_block_offset |-> 0,
     first_key |-> NewTimestampedKey(<< >>),
     last_key |-> NewTimestampedKey(<< >>),
     all_keys |-> << >>]

NewBlockMetadata(offset, first_key, last_key) ==
    [offset |-> offset, first_key |-> first_key, last_key |-> last_key]

\* variant: the record takes the offset at which the next block will start
FinalizeBlockOffsetAfter(sb) ==
    LET block_data == sb.block_data \o BlockEncode(BlockBuilderBuild(sb.block_builder))
    IN [sb EXCEPT
          !.block_meta_list =
              Append(sb.block_meta_list,
                     NewBlockMetadata(Len(block_data), sb.first_key, sb.last_key)),
          !.block_builder = NewBlockBuilder(sb.block_size),
          !.block_data = block_data]

FinalizeBlock(sb) ==
    [sb EXCEPT
       !.block_meta_list =
           Append(sb.block_meta_list,
                  NewBlockMetadata(sb.meta_block_offset, sb.first_key, sb.last_key)),
       !.block_builder = NewBlockBuilder(sb.block_size),
       !.block_data = sb.block_data \o BlockEncode(BlockBuilderBuild(sb.block_builder))]

SSTBuilderAdd(sb, kv) ==
    LET full == /\ ~BlockBuilderIsEmpty(sb.block_builder)
                /\ GetBlockSizeWithKv(sb.block_builder, kv) >= sb.block_size
        fin == FinalizeBlock(sb)
        sb1 == IF full
               THEN [fin EXCEPT !.meta_block_offset = Len(fin.block_data),
                                !.first_key = kv.key]
               ELSE sb
        sb2 == IF sb1.first_key.key = << >>
               THEN [sb1 EXCEPT !.first_key = kv.key]
               ELSE sb1
        added == BlockBuilderAdd(sb2.block_builder, kv)
    IN [ok |-> added.ok,
        sb |-> [sb2 EXCEPT !.last_key = kv.key,
                           !.all_keys = Append(sb2.all_keys, kv.key),
                           !.block_builder = added.bb]]

\* the keys a filter answers "maybe" for: every key it was built from, plus
\* the false positives the hash produces (fp)
BloomFilterFromKeys(keys, fp) ==
    IF Len(keys) = 0 THEN Keys
    ELSE { keys[i].key : i \in 1..Len(keys) } \cup fp

BloomMaybeContains(bloom_filter, key) == key \in bloom_filter

NewSst(id, file, meta_blocks, meta_block_offset, bloom_filter) ==
    [id |-> id, file |-> file, meta_blocks |-> meta_blocks,
     meta_block_offset |-> meta_block_offset, bloom_filter |-> bloom_filter]

SSTBuilderBuild(sb, id, fp) ==
    LET fin == FinalizeBlock(sb)
    IN NewSst(id, fin.block_data, fin.block_meta_list, Len(fin.block_data),
              BloomFilterFromKeys(fin.all_keys, fp))

SstGetFirstKey(sst) == sst.meta_blocks[1].first_key

SstGetLastKey(sst) == sst.meta_blocks[Len(sst.meta_blocks)].last_key

SstMaybeContainsKey(sst, key) ==
    /\ BloomMaybeContains(sst.bloom_filter, key)
    /\ BytesLeq(SstGetFirstKey(sst).key, key)
    /\ BytesLeq(key, SstGetLastKey(sst).key)

\* MemTable::flush: add every entry, in key order, to the builder
RECURSIVE MemTableFlushLoop(_, _)
MemTableFlushLoop(kvs, sb) ==
    IF kvs = << >> THEN [ok |-> TRUE, sb |-> sb]
    ELSE LET added == SSTBuilderAdd(sb, Head(kvs))
         IN IF added.ok THEN MemTableFlushLoop(Tail(kvs), added.sb)
            ELSE [ok |-> FALSE, sb |-> added.sb]

MemTableFlush(memtable, sb) ==
    MemTableFlushLoop(
        NewMemTableIterator(memtable, [kind |-> "Unbounded"],
                            [kind |-> "Unbounded"]).rest, sb)

\* ------------------------------------------------------------------------
\* SST iterator
\* ------------------------------------------------------------------------

\* File::load_block_to_mem through SSTIterator::load_block_to_mem
LoadBlockToMem(sst, block_index) ==
    LET offset == sst.meta_blocks[block_index + 1].offset
        next_block_index == block_index + 1
        next_offset == IF Len(sst.meta_blocks) < next_block_index + 1
                       THEN sst.meta_block_offset
                       ELSE sst.meta_blocks[next_block_index + 1].offset
    IN BlockDecode(Slice(sst.file, offset, next_offset))

RECURSIVE BlockIndexLoop(_, _, _, _)
BlockIndexLoop(sst, key, lo, hi) ==
    LET mid == (lo + hi + 1) \div 2
    IN IF lo < hi
       THEN LET first_key == sst.meta_blocks[mid + 1].first_key.key
            IN IF BytesLess(first_key, key.key)
               THEN BlockIndexLoop(sst, key, mid, hi)
               ELSE IF BytesLess(key.key, first_key)
               THEN BlockIndexLoop(sst, key, lo, mid - 1)
               ELSE mid
       ELSE mid

GetBlockIndexForKey(sst, key) ==
    BlockIndexLoop(sst, key, 0, Len(sst.meta_blocks) - 1)

SSTIteratorCreateAndSeekToFirst(sst) ==
    LET block_iterator == BlockIteratorCreateAndSeekToFirst(LoadBlockToMem(sst, 0))
    IN [sst |-> sst, block_index |-> 0, block_iterator |-> block_iterator,
        current_kv |-> BlockIteratorPeek(block_iterator), is_valid |-> TRUE]

SSTIteratorCreateAndSeekToKey(sst, key) ==
    LET block_index == GetBlockIndexForKey(sst, key)
        block_iterator ==
            BlockIteratorCreateAndSeekToKey(LoadBlockToMem(sst, block_index), key)
    IN [sst |-> sst, block_index |-> block_index,
        block_iterator |-> block_iterator,
        current_kv |-> BlockIteratorPeek(block_iterator), is_valid |-> TRUE]

SSTIteratorPeek(it) == it.current_kv

SSTIteratorNext(it) ==
    IF \/ ~it.is_valid
       \/ it.block_index >= Len(it.sst.meta_blocks)
       \/ it.current_kv = None
    THEN [it |-> it, res |-> None]
    ELSE
      LET current_key == it.current_kv[1].key
          last_key == it.sst.meta_blocks[it.block_index + 1].last_key
      IN IF BytesLess(current_key.key, last_key.key)
         THEN LET stepped == BlockIteratorNext(it.block_iterator)
              IN [it |-> [it EXCEPT !.block_iterator = stepped.it,
                                    !.current_kv = BlockIteratorPeek(stepped.it)],
                  res |-> stepped.res]
         ELSE IF it.block_index + 1 >= Len(it.sst.meta_blocks)
         THEN [it |-> [it EXCEPT !.block_index = it.block_index + 1,
                                 !.current_kv = None],
               res |-> it.current_kv]
         ELSE LET fresh == BlockIteratorCreateAndSeekToFirst(
                               LoadBlockToMem(it.sst, it.block_index + 1))
                  stepped == BlockIteratorNext(fresh)
              IN [it |-> [it EXCEPT !.block_index = it.block_index + 1,
                                    !.block_iterator = stepped.it,
                                    !.current_kv = stepped.res],
                  res |-> it.current_kv]

\* ------------------------------------------------------------------------
\* Memtable, bounded, merge and two-merge iterators
\* ------------------------------------------------------------------------

MemTableIteratorPeek(it) ==
    IF it.rest = << >> THEN None ELSE Some(Head(it.rest))

MemTableIteratorNext(it) ==
    IF it.rest = << >>
    THEN [it |-> it, res |-> None]
    ELSE [it |-> [it EXCEPT !.rest = Tail(it.rest)], res |-> Some(Head(it.rest))]

NewBoundedIterator(sub_iterator, bound) ==
    [type |-> "bounded", sub_iterator |-> sub_iterator,
     upper_bound |-> IF bound.kind = "Unbounded" THEN bound
                     ELSE [kind |-> bound.kind, key |-> NewTimestampedKey(bound.key)]]

\* the comparison of the sub-iterator's current key with the upper bound
WithinUpperBound(current_kv, upper_bound) ==
    CASE upper_bound.kind = "Included" ->
           ~TimestampedKeyLess(upper_bound.key, current_kv.key)
      [] upper_bound.kind = "Excluded" ->
           TimestampedKeyLess(current_kv.key, upper_bound.key)
      [] OTHER -> TRUE

BoundedIteratorPeek(it) ==
    LET peeked == SSTIteratorPeek(it.sub_iterator)
    IN IF peeked # None /\ WithinUpperBound(peeked[1], it.upper_bound)
       THEN peeked
       ELSE None

BoundedIteratorNext(it) ==
    LET peeked == SSTIteratorPeek(it.sub_iterator)
    IN IF peeked # None /\ WithinUpperBound(peeked[1], it.upper_bound)
       THEN LET stepped == SSTIteratorNext(it.sub_iterator)
            IN [it |-> [it EXCEPT !.sub_iterator = stepped.it], res |-> stepped.res]
       ELSE [it |-> it, res |-> None]

\* StorageIterator + Iterator of the source iterators a MergeIterator holds
SourceIsValid(it) ==
    IF it.type = "memtable" THEN TRUE ELSE it.sub_iterator.is_valid

SourceNext(it) ==
    IF it.type = "memtable" THEN MemTableIteratorNext(it) ELSE BoundedIteratorNext(it)

\* variant: the heap ordered by the index of the source alone
HeapLessByIndex(x, y) == x.index < y.index

\* the order of the heap of Reverse((KeyValuePair, usize))
HeapLess(x, y) ==
    \/ KeyValuePairLess(x.kv, y.kv)
    \/ x.kv = y.kv /\ x.index < y.index

HeapTop(heap) == CHOOSE x \in heap : \A y \in heap : x = y \/ HeapLess(x, y)

RECURSIVE MergeIteratorNewLoop(_, _, _)
MergeIteratorNewLoop(iters, i, heap) ==
    IF i > Len(iters)
    THEN [heap |-> heap, iterators_to_merge |-> iters, is_valid |-> TRUE]
    ELSE IF ~SourceIsValid(iters[i])
    THEN [heap |-> heap, iterators_to_merge |-> iters, is_valid |-> FALSE]
    ELSE LET primed == SourceNext(iters[i])
         IN MergeIteratorNewLoop(
              [iters EXCEPT ![i] = primed.it], i + 1,
              IF primed.res = None THEN heap
              ELSE heap \cup { [kv |-> primed.res[1], index |-> i - 1] })

NewMergeIterator(iterators_to_merge) ==
    MergeIteratorNewLoop(iterators_to_merge, 1, {})

MergeIteratorPeek(it) ==
    IF it.heap = {} THEN None ELSE Some(HeapTop(it.heap).kv)

MergeIteratorNext(it) ==
    IF ~it.is_valid \/ it.heap = {}
    THEN [it |-> it, res |-> None]
    ELSE
      LET top == HeapTop(it.heap)
          source == it.iterators_to_merge[top.index + 1]
          stepped == SourceNext(source)
          popped == it.heap \ {top}
      IN [it |-> [heap |-> IF stepped.res = None THEN popped
                           ELSE popped \cup { [kv |-> stepped.res[1],
                                               index |-> top.index] },
                  iterators_to_merge |->
                      [it.iterators_to_merge EXCEPT ![top.index + 1] = stepped.it],
                  is_valid |-> it.is_valid /\ SourceIsValid(source)],
          res |-> Some(top.kv)]

\* variant: nothing is current once one of the sub-iterators is exhausted
GetCurrentKvUntilFirstEnd(sub_iters, is_valid) ==
    IF ~is_valid
    THEN [current_kv |-> None, current_iter_index |-> FALSE]
    ELSE
      LET peek0 == MergeIteratorPeek(sub_iters[1])
          peek1 == MergeIteratorPeek(sub_iters[2])
      IN IF peek0 # None /\ peek1 # None
         THEN IF KeyValuePairLess(peek0[1], peek1[1])
              THEN [current_kv |-> peek0, current_iter_index |-> FALSE]
              ELSE [current_kv |-> peek1, current_iter_index |-> TRUE]
         ELSE [current_kv |-> None, current_iter_index |-> FALSE]

GetCurrentKvAndIterIndex(sub_iters, is_valid) ==
    IF ~is_valid
    THEN [current_kv |-> None, current_iter_index |-> FALSE]
    ELSE
      LET peek0 == MergeIteratorPeek(sub_iters[1])
          peek1 == MergeIteratorPeek(sub_iters[2])
      IN CASE peek0 # None /\ peek1 # None ->
                IF KeyValuePairLess(peek0[1], peek1[1])
                THEN [current_kv |-> peek0, current_iter_index |-> FALSE]
                ELSE [current_kv |-> peek1, current_iter_index |-> TRUE]
           [] peek0 # None /\ peek1 = None ->
                [current_kv |-> peek0, current_iter_index |-> FALSE]
           [] peek0 = None /\ peek1 # None ->
                [current_kv |-> peek1, current_iter_index |-> TRUE]
           [] OTHER -> [current_kv |-> None, current_iter_index |-> FALSE]

NewTwoMergeIterator(sub_iter_1, sub_iter_2) ==
    LET sub_iters == << sub_iter_1, sub_iter_2 >>
        cur == GetCurrentKvAndIterIndex(sub_iters,
                   sub_iter_1.is_valid /\ sub_iter_2.is_valid)
    IN [sub_iters |-> sub_iters, current_kv |-> cur.current_kv,
        current_iter_index |-> cur.current_iter_index, is_valid |-> TRUE]

TwoMergeIteratorNext(it) ==
    LET which == IF it.current_iter_index THEN 2 ELSE 1
        stepped == MergeIteratorNext(it.sub_iters[which])
        sub_iters == [it.sub_iters EXCEPT ![which] = stepped.it]
        is_valid == it.is_valid /\ stepped.it.is_valid
        cur == GetCurrentKvAndIterIndex(sub_iters, is_valid)
    IN [it |-> [sub_iters |-> sub_iters, current_kv |-> cur.current_kv,
                current_iter_index |-> cur.current_iter_index,
                is_valid |-> is_valid],
        res |-> it.current_kv]

\* the entries a caller gets by calling next until it returns None
RECURSIVE Collect(_)
Collect(it) ==
    LET stepped == TwoMergeIteratorNext(it)
    IN IF stepped.res = None THEN << >>
       ELSE << stepped.res[1] >> \o Collect(stepped.it)

\* ------------------------------------------------------------------------
\* Storage state: pure parts of get, scan, freeze and flush
\* ------------------------------------------------------------------------

\* the first hit among the frozen memtables, newest first
RECURSIVE FrozenGet(_, _, _)
FrozenGet(mts, frozen, key) ==
    IF frozen = << >> THEN None
    ELSE LET res == MemTableGet(mts[Head(frozen)], key)
         IN IF res # None THEN res ELSE FrozenGet(mts, Tail(frozen), key)

\* the lookup in the L0 SSTs, newest first
RECURSIVE SstsGet(_, _)
SstsGet(ssts, key) ==
    IF ssts = << >> THEN None
    ELSE
      LET sst == Head(ssts)
          found_kv == SSTIteratorPeek(
                          SSTIteratorCreateAndSeekToKey(sst, NewTimestampedKey(key)))
      IN IF /\ SstMaybeContainsKey(sst, key)
            /\ found_kv # None
            /\ found_kv[1].key.key = key
         THEN IF found_kv[1].value = TOMBSTONE THEN None
              ELSE Some(found_kv[1].value)
         ELSE SstsGet(Tail(ssts), key)

\* variant: a tombstone found in a memtable is returned as a value
StorageGetTombstoneAsValue(st, mts, key, in_current) ==
    LET res == IF in_current # None THEN in_current
               ELSE FrozenGet(mts, st.frozen_memtables, key)
    IN IF res # None THEN res ELSE SstsGet(st.ssts, key)

\* StorageState::get after the lookup in the current memtable gave in_current
StorageGetAfterCurrent(st, mts, key, in_current) ==
    LET res == IF in_current # None THEN in_current
               ELSE FrozenGet(mts, st.frozen_memtables, key)
    IN IF res # None
       THEN IF res[1] = TOMBSTONE THEN None ELSE res
       ELSE SstsGet(st.ssts, key)

\* StorageState::get on one snapshot st and the memtables mts it points to
StorageGet(st, mts, key) ==
    StorageGetAfterCurrent(st, mts, key,
                           MemTableGet(mts[st.current_memtable], key))

range_overlap(query_lower, query_upper, target_lower, target_upper) ==
    LET disjoint_lesser ==
            CASE query_upper.kind = "Included" ->
                   BytesLess(query_upper.key, target_lower.key)
              [] query_upper.kind = "Excluded" ->
                   BytesLeq(query_upper.key, target_lower.key)
              [] OTHER -> FALSE
        disjoint_greater ==
            CASE query_lower.kind = "Included" ->
                   BytesLeq(target_upper.key, query_lower.key)
              [] query_lower.kind = "Excluded" ->
                   BytesLess(target_upper.key, query_lower.key)
              [] OTHER -> FALSE
    IN ~disjoint_lesser /\ ~disjoint_greater

\* the SST iterator scan positions at the lower bound
ScanSstIterator(sst, lower) ==
    CASE lower.kind = "Included" ->
           SSTIteratorCreateAndSeekToKey(sst, NewTimestampedKey(lower.key))
      [] lower.kind = "Excluded" ->
           LET it == SSTIteratorCreateAndSeekToKey(sst, NewTimestampedKey(lower.key))
               peeked == SSTIteratorPeek(it)
           IN IF it.is_valid /\ peeked # None /\ peeked[1].key.key = lower.key
              THEN SSTIteratorNext(it).it
              ELSE it
      [] OTHER -> SSTIteratorCreateAndSeekToFirst(sst)

RECURSIVE L0SstIterators(_, _, _)
L0SstIterators(ssts, lower, upper) ==
    IF ssts = << >> THEN << >>
    ELSE
      LET sst == Head(ssts)
          others == L0SstIterators(Tail(ssts), lower, upper)
      IN IF ~range_overlap(lower, upper, SstGetFirstKey(sst), SstGetLastKey(sst))
         THEN others
         ELSE << NewBoundedIterator(ScanSstIterator(sst, lower), upper) >> \o others

\* StorageState::scan on one snapshot: the composite iterator it returns
StorageScan(st, mts, lower, upper) ==
    LET memtables_snapshot == << st.current_memtable >> \o st.frozen_memtables
        memtable_iterators ==
            [i \in 1..Len(memtables_snapshot) |->
               NewMemTableIterator(mts[memtables_snapshot[i]], lower, upper)]
    IN NewTwoMergeIterator(
           NewMergeIterator(memtable_iterators),
           NewMergeIterator(L0SstIterators(st.ssts, lower, upper)))

\* variant: the memtable just frozen goes to the back of the list
FreezeInstallPushBack(st, mts, new_memtable) ==
    LET frozen == MemTableFreeze(mts[st.current_memtable])
    IN [ok |-> frozen.ok,
        state |-> [st EXCEPT
                     !.frozen_memtables =
                         st.frozen_memtables \o << st.current_memtable >>,
                     !.current_memtable = new_memtable.id],
        memtables |->
            [id \in (DOMAIN mts) \cup {new_memtable.id} |->
               IF id = new_memtable.id THEN new_memtable
               ELSE IF id = st.current_memtable THEN frozen.memtable
               ELSE mts[id]]]

\* the part of freeze_memtable that runs under the exclusive lock
FreezeInstall(st, mts, new_memtable) ==
    LET frozen == MemTableFreeze(mts[st.current_memtable])
    IN IF ~frozen.ok
       THEN [ok |-> FALSE, state |-> st, memtables |-> mts]
       ELSE [ok |-> TRUE,
             state |-> [st EXCEPT
                          !.frozen_memtables =
                              << st.current_memtable >> \o st.frozen_memtables,
                          !.current_memtable = new_memtable.id],
             memtables |->
                 [id \in (DOMAIN mts) \cup {new_memtable.id} |->
                    IF id = new_memtable.id THEN new_memtable
                    ELSE IF id = st.current_memtable THEN frozen.memtable
                    ELSE mts[id]]]

\* variant: the newest frozen memtable is picked
FlushPickNewest(st) ==
    IF st.frozen_memtables = << >> THEN None
    ELSE Some(st.frozen_memtables[1])

\* flush_next_memtable_to_l0: the memtable picked under the shared lock
FlushPick(st) ==
    IF st.frozen_memtables = << >> THEN None
    ELSE Some(st.frozen_memtables[Len(st.frozen_memtables)])

\* flush_next_memtable_to_l0: the builder filled outside the lock
FlushBuild(memtable, block_max_size_bytes) ==
    MemTableFlush(memtable, NewSSTBuilder(block_max_size_bytes))

\* variant: the memtable is retired and its SST is not published
FlushInstallWithoutSst(st, memtable_to_flush, sst_builder, fp) ==
    [st EXCEPT
       !.frozen_memtables =
           IF st.frozen_memtables = << >> THEN << >>
           ELSE SubSeq(st.frozen_memtables, 1, Len(st.frozen_memtables) - 1)]

\* flush_next_memtable_to_l0: the part under the exclusive lock
FlushInstall(st, memtable_to_flush, sst_builder, fp) ==
    LET sst == SSTBuilderBuild(sst_builder, memtable_to_flush.id, fp)
    IN [st EXCEPT
          !.l0_sst_ids = << sst.id >> \o st.l0_sst_ids,
          !.ssts = << sst >> \o st.ssts,
          !.frozen_memtables =
              IF st.frozen_memtables = << >> THEN << >>
              ELSE SubSeq(st.frozen_memtables, 1, Len(st.frozen_memtables) - 1)]

\* ------------------------------------------------------------------------
\* Storage state: whole operations, as one caller runs them start to end
\* ------------------------------------------------------------------------

\* variant: the counter is read and not advanced
GetNextSstIdLoad(counter) == [id |-> counter, counter |-> counter]

\* get_next_sst_id: fetch_add on the shared counter
GetNextSstId(counter) == [id |-> counter, counter |-> counter + 1]

\* freeze_memtable on the world w = [state, memtables, sst_counter]
FreezeMemtable(w) ==
    LET next == GetNextSstId(w.sst_counter)
        inst == FreezeInstall(w.state, w.memtables, NewMemTable(next.id))
    IN [ret |-> IF inst.ok THEN "Ok" ELSE "MemtableImmutable",
        state |-> inst.state, memtables |-> inst.memtables,
        sst_counter |-> next.counter]

\* variant: an empty memtable is rotated too
PutMustFreezeWhenEmpty(current_memtable_size, key, value, opts) ==
    current_memtable_size + Len(key) + Len(value) > opts.sst_max_size_bytes

\* the rotation test at the start of put
PutMustFreeze(current_memtable_size, key, value, opts) ==
    /\ current_memtable_size > 0
    /\ current_memtable_size + Len(key) + Len(value) > opts.sst_max_size_bytes

StoragePut(w, opts, key, value) ==
    LET current_memtable_size == w.memtables[w.state.current_memtable].size_bytes
        fr == IF PutMustFreeze(current_memtable_size, key, value, opts)
              THEN FreezeMemtable(w)
              ELSE [ret |-> "Ok", state |-> w.state, memtables |-> w.memtables,
                    sst_counter |-> w.sst_counter]
        put == MemTablePut(fr.memtables[fr.state.current_memtable], key, value)
    IN IF fr.ret # "Ok" THEN fr
       ELSE [ret |-> IF put.ok THEN "Ok" ELSE "MemtableImmutable",
             state |-> fr.state,
             memtables |-> [fr.memtables EXCEPT
                              ![fr.state.current_memtable] = put.memtable],
             sst_counter |-> fr.sst_counter]

\* variant: delete writes the tombstone without looking the key up
StorageDeleteUnchecked(w, opts, key) == StoragePut(w, opts, key, TOMBSTONE)

StorageDelete(w, opts, key) ==
    IF StorageGet(w.state, w.memtables, key) = None
    THEN [ret |-> "KeyNotFound", state |-> w.state, memtables |-> w.memtables,
          sst_counter |-> w.sst_counter]
    ELSE StoragePut(w, opts, key, TOMBSTONE)

\* the memtables some snapshot still points to
LiveMemtables(st) ==
    {st.current_memtable} \cup { st.frozen_memtables[i] : i \in 1..Len(st.frozen_memtables) }

FlushNextMemtableToL0(w, opts, fp) ==
    LET picked == FlushPick(w.state)
        built == FlushBuild(w.memtables[picked[1]], opts.block_max_size_bytes)
        st == FlushInstall(w.state, w.memtables[picked[1]], built.sb, fp)
    IN IF picked = None
       THEN [ret |-> "Ok", state |-> w.state, memtables |-> w.memtables,
             sst_counter |-> w.sst_counter]
       ELSE IF ~built.ok
       THEN [ret |-> "BlockFull", state |-> w.state, memtables |-> w.memtables,
             sst_counter |-> w.sst_counter]
       ELSE [ret |-> "Ok", state |-> st,
             memtables |-> [id \in LiveMemtables(st) |-> w.memtables[id]],
             sst_counter |-> w.sst_counter]

\* the loop of flush_all_memtables: flush until no memtable is frozen
RECURSIVE FlushAllLoop(_, _, _)
FlushAllLoop(w, opts, fp) ==
    IF Len(w.state.frozen_memtables) = 0
    THEN [ret |-> "Ok", state |-> w.state, memtables |-> w.memtables,
          sst_counter |-> w.sst_counter]
    ELSE LET flushed == FlushNextMemtableToL0(w, opts, fp)
         IN IF flushed.ret # "Ok" THEN flushed
            ELSE FlushAllLoop(flushed, opts, fp)

\* flush_all_memtables; fp are the false positives of every filter it builds
FlushAllMemtables(w, opts, fp) ==
    LET fr == FreezeMemtable(w)
    IN IF fr.ret # "Ok" THEN fr ELSE FlushAllLoop(fr, opts, fp)

\* variant: the flush is invoked whatever the number of frozen memtables
StorageTriggerFlushAlways(w, opts, fp) == FlushNextMemtableToL0(w, opts, fp)

\* trigger_flush, run start to end
StorageTriggerFlush(w, opts, fp) ==
    LET should_trigger_flush ==
            Len(w.state.frozen_memtables) >= opts.num_memtables_limit
    IN IF should_trigger_flush
       THEN FlushNextMemtableToL0(w, opts, fp)
       ELSE [ret |-> "Ok", state |-> w.state, memtables |-> w.memtables,
             sst_counter |-> w.sst_counter]

\* ------------------------------------------------------------------------
\* State
\* ------------------------------------------------------------------------

VARIABLES
    options,      \* StorageStateOptions the store was opened with
    sst_counter,  \* StorageState.sst_counter
    state,        \* the StorageStateProtected snapshot published in state_lock
    memtables,    \* the MemTable objects behind the Arc pointers, by id
    kvmap,        \* the last value written for each key (Option of raw value)
    nops,         \* number of client operations started
    ret,          \* result of the last completed operation
    pc,           \* where each thread is inside its current operation
    loc,          \* the local variables of each thread's current operation
    readers,      \* the threads that hold state_lock for reading
    flush_notifier, \* the messages waiting in the end_flush channel
    flush_thread, \* LsmStore.flush_thread: the join handle, if still stored
    inp,          \* the arguments a function under study was given
    iter,         \* the iterator under study
    results       \* what the function or iterator under study has returned

storeVars == << flush_notifier, flush_thread >>

iterVars == << inp, iter, results >>

vars == << options, sst_counter, state, memtables, kvmap, nops, ret,
           pc, loc, readers, storeVars, iterVars >>

\* the most calls the client threads make in one run
MaxCalls == 3

\* the keys the client threads use
ThreadKeys == { << 2 >>, << 3 >> }

Clients == { "c1", "c2" }

Flusher == "bg"

Threads == Clients \cup {Flusher}

IdleLocals ==
    [op |-> "none", key |-> << >>, value |-> << >>, new_id |-> 0,
     res |-> None, seen |-> {}, picked |-> None, sb |-> None]

World == [state |-> state, memtables |-> memtables, sst_counter |-> sst_counter]

\* what a plain key-to-value map answers for key
Expected(key) ==
    IF kvmap[key] = None \/ kvmap[key][1] = TOMBSTONE THEN None ELSE kvmap[key]

\* StorageState::open under the options chosen, all threads idle
InitStore ==
    /\ sst_counter = 1
    /\ state = [current_memtable |-> 0, frozen_memtables |-> << >>,
                l0_sst_ids |-> << >>, ssts |-> << >>]
    /\ memtables = [id \in {0} |-> NewMemTable(0)]
    /\ kvmap = [k \in Keys |-> None]
    /\ nops = 0
    /\ ret = "Ok"
    /\ pc = [t \in Threads |-> "idle"]
    /\ loc = [t \in Threads |-> IdleLocals]
    /\ readers = {}
    /\ flush_notifier = 0
    /\ inp = << >>
    /\ iter = << >>
    /\ results = << >>

\* StorageState::open
Init ==
    /\ options \in [sst_max_size_bytes : SstMaxSizes,
                    block_max_size_bytes : BlockMaxSizes,
                    num_memtables_limit : {DefaultNumMemtablesLimit}]
    /\ InitStore
    /\ flush_thread = None

Install(r) ==
    /\ state' = r.state
    /\ memtables' = r.memtables
    /\ sst_counter' = r.sst_counter
    /\ ret' = r.ret

Put(key, value) ==
    /\ nops < MaxOps
    /\ LET r == StoragePut(World, options, key, value)
       IN /\ r.sst_counter <= MaxId + 1
          /\ Install(r)
          /\ kvmap' = IF r.ret = "Ok" THEN [kvmap EXCEPT ![key] = Some(value)]
                      ELSE kvmap
    /\ nops' = nops + 1
    /\ UNCHANGED << options, pc, loc, readers >>
    /\ UNCHANGED << iterVars, storeVars >>

Delete(key) ==
    /\ nops < MaxOps
    /\ LET r == StorageDelete(World, options, key)
       IN /\ r.sst_counter <= MaxId + 1
          /\ Install(r)
          /\ kvmap' = IF r.ret = "Ok" THEN [kvmap EXCEPT ![key] = Some(TOMBSTONE)]
                      ELSE kvmap
    /\ nops' = nops + 1
    /\ UNCHANGED << options, pc, loc, readers >>
    /\ UNCHANGED << iterVars, storeVars >>

Freeze ==
    /\ nops < MaxOps
    /\ sst_counter <= MaxId
    /\ Install(FreezeMemtable(World))
    /\ nops' = nops + 1
    /\ UNCHANGED << options, kvmap, pc, loc, readers >>
    /\ UNCHANGED << iterVars, storeVars >>

Flush ==
    /\ nops < MaxOps
    /\ \E fp \in BloomFalsePositives :
         Install(FlushNextMemtableToL0(World, options, fp))
    /\ nops' = nops + 1
    /\ UNCHANGED << options, kvmap, pc, loc, readers >>
    /\ UNCHANGED << iterVars, storeVars >>

\* one tick of the flush thread's ticker, with no other thread running
Tick ==
    /\ nops < MaxOps
    /\ \E fp \in BloomFalsePositives :
         Install(StorageTriggerFlush(World, options, fp))
    /\ nops' = nops + 1
    /\ UNCHANGED << options, kvmap, pc, loc, readers >>
    /\ UNCHANGED << iterVars, storeVars >>

FlushAll ==
    /\ nops < MaxOps
    /\ sst_counter <= MaxId
    /\ \E fp \in BloomFalsePositives :
         Install(FlushAllMemtables(World, options, fp))
    /\ nops' = nops + 1
    /\ UNCHANGED << options, kvmap, pc, loc, readers >>
    /\ UNCHANGED << iterVars, storeVars >>

\* ------------------------------------------------------------------------
\* Threads: the same operations, one lock acquisition or atomic access a step
\* ------------------------------------------------------------------------

\* the value a client thread writes
ClientValue(t) == IF t = "c1" THEN << 1 >> ELSE << 2 >>

SetLocals(t, l) == loc' = [loc EXCEPT ![t] = l]

\* state_lock.write() is granted only when no reader holds the lock
WriteLockFree == readers = {}

\* put, first block: the size of the current memtable read under the lock
PutReadSize(t, op, key, value) ==
    LET current_memtable_size == memtables[state.current_memtable].size_bytes
    IN /\ pc' = [pc EXCEPT ![t] =
                   IF PutMustFreeze(current_memtable_size, key, value, options)
                   THEN "freeze_new" ELSE "put_insert"]
       /\ SetLocals(t, [IdleLocals EXCEPT !.op = op, !.key = key,
                                          !.value = value])
       /\ UNCHANGED << options, sst_counter, state, memtables, kvmap, ret,
                       readers >>
    /\ UNCHANGED << iterVars, storeVars >>

CallPut(t, key, value) ==
    /\ pc[t] = "idle"
    /\ nops < MaxCalls
    /\ nops' = nops + 1
    /\ PutReadSize(t, "put", key, value)

\* freeze_memtable: MemTable::new(self.get_next_sst_id())
FreezeNew(t) ==
    /\ pc[t] = "freeze_new"
    /\ sst_counter <= MaxId
    /\ LET next == GetNextSstId(sst_counter)
       IN /\ sst_counter' = next.counter
          /\ SetLocals(t, [loc[t] EXCEPT !.new_id = next.id])
    /\ pc' = [pc EXCEPT ![t] = "freeze_install"]
    /\ UNCHANGED << options, state, memtables, kvmap, nops, ret, readers >>
    /\ UNCHANGED << iterVars, storeVars >>

\* freeze_memtable: the copy-modify-publish under the exclusive lock
FreezeInstallStep(t) ==
    /\ pc[t] = "freeze_install"
    /\ WriteLockFree
    /\ LET inst == FreezeInstall(state, memtables, NewMemTable(loc[t].new_id))
       IN /\ state' = inst.state
          /\ memtables' = inst.memtables
          /\ IF inst.ok
             THEN /\ pc' = [pc EXCEPT ![t] = "put_insert"]
                  /\ UNCHANGED << ret, loc >>
             ELSE /\ pc' = [pc EXCEPT ![t] = "idle"]
                  /\ ret' = "MemtableImmutable"
                  /\ SetLocals(t, IdleLocals)
    /\ UNCHANGED << options, sst_counter, kvmap, nops, readers >>
    /\ UNCHANGED << iterVars, storeVars >>

\* a get in flight on key has now overlapped a write of key
NoteWrite(locals, key, written) ==
    [t \in Threads |->
       IF locals[t].op \in {"get", "delete"} /\ pc[t] = "get_rest"
          /\ locals[t].key = key
       THEN [locals[t] EXCEPT !.seen = @ \cup {written}]
       ELSE locals[t]]

\* variant: the insert goes to the memtable the rotation has just frozen
PutInsertAfterFreeze(t) ==
    /\ pc[t] = "put_insert"
    /\ LET target == IF state.frozen_memtables = << >>
                     THEN state.current_memtable
                     ELSE state.frozen_memtables[1]
       IN /\ memtables' = [memtables EXCEPT ![target] =
                             MemTableInsert(@, loc[t].key, loc[t].value)]
          /\ kvmap' = [kvmap EXCEPT ![loc[t].key] = Some(loc[t].value)]
          /\ loc' = NoteWrite(loc, loc[t].key,
                              IF loc[t].value = TOMBSTONE THEN None
                              ELSE Some(loc[t].value))
          /\ readers' = readers \cup {t}
          /\ pc' = [pc EXCEPT ![t] = "put_size"]
          /\ UNCHANGED ret
    /\ UNCHANGED << options, sst_counter, state, nops >>
    /\ UNCHANGED << iterVars, storeVars >>

\* put, last block: MemTable::put under the shared lock, up to the insert
PutInsert(t) ==
    /\ pc[t] = "put_insert"
    /\ LET current == memtables[state.current_memtable]
       IN IF ~current.mutable
          THEN /\ pc' = [pc EXCEPT ![t] = "idle"]
               /\ ret' = "MemtableImmutable"
               /\ SetLocals(t, IdleLocals)
               /\ UNCHANGED << memtables, kvmap, readers >>
          ELSE /\ memtables' =
                     [memtables EXCEPT ![state.current_memtable] =
                        MemTableInsert(current, loc[t].key, loc[t].value)]
               /\ kvmap' = [kvmap EXCEPT ![loc[t].key] = Some(loc[t].value)]
               /\ loc' = NoteWrite(loc, loc[t].key,
                                   IF loc[t].value = TOMBSTONE THEN None
                                   ELSE Some(loc[t].value))
               /\ readers' = readers \cup {t}
               /\ pc' = [pc EXCEPT ![t] = "put_size"]
               /\ UNCHANGED ret
    /\ UNCHANGED << options, sst_counter, state, nops >>
    /\ UNCHANGED << iterVars, storeVars >>

\* put, last block: the size_bytes.fetch_add that ends MemTable::put
PutAddSize(t) ==
    /\ pc[t] = "put_size"
    /\ memtables' = [memtables EXCEPT ![state.current_memtable] =
                       MemTableAddSize(@, loc[t].key, loc[t].value)]
    /\ readers' = readers \ {t}
    /\ pc' = [pc EXCEPT ![t] = "idle"]
    /\ ret' = "Ok"
    /\ SetLocals(t, IdleLocals)
    /\ UNCHANGED << options, sst_counter, state, kvmap, nops >>
    /\ UNCHANGED << iterVars, storeVars >>

\* get: the shared lock taken and the current memtable looked up
GetCurrent(t, op, key) ==
    /\ pc[t] = "idle"
    /\ nops < MaxCalls
    /\ nops' = nops + 1
    /\ readers' = readers \cup {t}
    /\ pc' = [pc EXCEPT ![t] = "get_rest"]
    /\ SetLocals(t, [IdleLocals EXCEPT
                       !.op = op, !.key = key,
                       !.res = MemTableGet(memtables[state.current_memtable], key),
                       !.seen = {Expected(key)}])
    /\ UNCHANGED << options, sst_counter, state, memtables, kvmap, ret >>
    /\ UNCHANGED << iterVars, storeVars >>

CallGet(t, key) == GetCurrent(t, "get", key)

CallDelete(t, key) == GetCurrent(t, "delete", key)

\* variant: get returns and its read guard is never dropped
GetRestKeepsGuard(t) ==
    /\ pc[t] = "get_rest"
    /\ loc[t].op = "get"
    /\ pc' = [pc EXCEPT ![t] = "idle"]
    /\ SetLocals(t, [IdleLocals EXCEPT
                       !.op = "get", !.key = loc[t].key,
                       !.res = StorageGetAfterCurrent(state, memtables,
                                                      loc[t].key, loc[t].res)])
    /\ ret' = "Ok"
    /\ UNCHANGED << options, sst_counter, state, memtables, kvmap, nops, readers >>
    /\ UNCHANGED << iterVars, storeVars >>

\* get: the frozen memtables and the SSTs looked up, the lock released
GetRest(t) ==
    /\ pc[t] = "get_rest"
    /\ loc[t].op = "get"
    /\ readers' = readers \ {t}
    /\ pc' = [pc EXCEPT ![t] = "idle"]
    /\ SetLocals(t, [IdleLocals EXCEPT
                       !.op = "get", !.key = loc[t].key,
                       !.res = StorageGetAfterCurrent(state, memtables,
                                                      loc[t].key, loc[t].res)])
    /\ ret' = "Ok"
    /\ UNCHANGED << options, sst_counter, state, memtables, kvmap, nops >>
    /\ UNCHANGED << iterVars, storeVars >>

\* delete: the get it starts with returns, then the put of the tombstone starts
DeleteAfterGet(t) ==
    /\ pc[t] = "get_rest"
    /\ loc[t].op = "delete"
    /\ readers' = readers \ {t}
    /\ IF StorageGetAfterCurrent(state, memtables, loc[t].key, loc[t].res) = None
       THEN /\ pc' = [pc EXCEPT ![t] = "idle"]
            /\ ret' = "KeyNotFound"
            /\ SetLocals(t, IdleLocals)
       ELSE /\ pc' = [pc EXCEPT ![t] = "put_start"]
            /\ UNCHANGED << ret, loc >>
    /\ UNCHANGED << options, sst_counter, state, memtables, kvmap, nops >>
    /\ UNCHANGED << iterVars, storeVars >>

DeletePut(t) ==
    /\ pc[t] = "put_start"
    /\ PutReadSize(t, "delete", loc[t].key, TOMBSTONE)
    /\ UNCHANGED nops

\* variant: the flush is started only above the limit
TriggerFlushAboveLimit ==
    /\ pc[Flusher] = "idle"
    /\ Len(state.frozen_memtables) > options.num_memtables_limit
    /\ pc' = [pc EXCEPT ![Flusher] = "flush_pick"]
    /\ UNCHANGED << options, sst_counter, state, memtables, kvmap, nops, ret,
                    loc, readers >>
    /\ UNCHANGED << iterVars, storeVars >>

\* trigger_flush: the test of the number of frozen memtables
TriggerFlush ==
    /\ pc[Flusher] = "idle"
    /\ Len(state.frozen_memtables) >= options.num_memtables_limit
    /\ pc' = [pc EXCEPT ![Flusher] = "flush_pick"]
    /\ UNCHANGED << options, sst_counter, state, memtables, kvmap, nops, ret,
                    loc, readers >>
    /\ UNCHANGED << iterVars, storeVars >>

\* flush_next_memtable_to_l0: the oldest frozen memtable picked
FlushPickStep ==
    /\ pc[Flusher] = "flush_pick"
    /\ LET picked == FlushPick(state)
       IN /\ pc' = [pc EXCEPT ![Flusher] =
                      IF picked = None THEN "idle" ELSE "flush_build"]
          /\ SetLocals(Flusher, [IdleLocals EXCEPT !.picked = picked])
    /\ UNCHANGED << options, sst_counter, state, memtables, kvmap, nops, ret,
                    readers >>
    /\ UNCHANGED << iterVars, storeVars >>

\* flush_next_memtable_to_l0: the memtable drained into the builder, no lock held
FlushBuildStep ==
    /\ pc[Flusher] = "flush_build"
    /\ LET built == FlushBuild(memtables[loc[Flusher].picked[1]],
                               options.block_max_size_bytes)
       IN IF built.ok
          THEN /\ pc' = [pc EXCEPT ![Flusher] = "flush_install"]
               /\ SetLocals(Flusher, [loc[Flusher] EXCEPT !.sb = Some(built.sb)])
          ELSE /\ pc' = [pc EXCEPT ![Flusher] = "idle"]
               /\ SetLocals(Flusher, IdleLocals)
    /\ UNCHANGED << options, sst_counter, state, memtables, kvmap, nops, ret,
                    readers >>
    /\ UNCHANGED << iterVars, storeVars >>

\* flush_next_memtable_to_l0: the SST built and published under the exclusive lock
FlushInstallStep ==
    /\ pc[Flusher] = "flush_install"
    /\ WriteLockFree
    /\ \E fp \in BloomFalsePositives :
         LET st == FlushInstall(state, memtables[loc[Flusher].picked[1]],
                                loc[Flusher].sb[1], fp)
         IN /\ state' = st
            /\ memtables' = [id \in LiveMemtables(st) |-> memtables[id]]
    /\ pc' = [pc EXCEPT ![Flusher] = "idle"]
    /\ SetLocals(Flusher, IdleLocals)
    /\ UNCHANGED << options, sst_counter, kvmap, nops, ret, readers >>
    /\ UNCHANGED << iterVars, storeVars >>

\* the flush thread's select takes the end_flush branch and the thread returns
FlushThreadExit ==
    /\ pc[Flusher] = "idle"
    /\ flush_notifier > 0
    /\ flush_notifier' = flush_notifier - 1
    /\ pc' = [pc EXCEPT ![Flusher] = "exited"]
    /\ UNCHANGED << options, sst_counter, state, memtables, kvmap, nops, ret,
                    loc, readers, flush_thread, iterVars >>

\* variant: close and drop go on without sending the shutdown signal
CloseWithoutSend(t, op) ==
    /\ pc[t] = "idle"
    /\ pc' = [pc EXCEPT ![t] = "close_lock"]
    /\ SetLocals(t, [IdleLocals EXCEPT !.op = op])
    /\ UNCHANGED << options, sst_counter, state, memtables, kvmap, nops, ret,
                    readers, storeVars, iterVars >>

\* close and drop: flush_notifier.send(()).ok(); a send to a channel whose
\* receiver is gone fails and the error is dropped
CloseSend(t, op) ==
    /\ pc[t] = "idle"
    /\ flush_notifier' = IF pc[Flusher] = "exited" THEN flush_notifier
                         ELSE flush_notifier + 1
    /\ pc' = [pc EXCEPT ![t] = "close_lock"]
    /\ SetLocals(t, [IdleLocals EXCEPT !.op = op])
    /\ UNCHANGED << options, sst_counter, state, memtables, kvmap, nops, ret,
                    readers, flush_thread, iterVars >>

\* the value a client's pc takes when its close or drop returns
AfterClose(op) == IF op = "drop" THEN "dropped" ELSE "idle"

\* close and drop: the flush_thread mutex locked and the handle taken; the
\* mutex stays locked while its holder joins
CloseTake(t) ==
    /\ pc[t] = "close_lock"
    /\ \A other \in Clients : pc[other] # "close_join"
    /\ flush_thread' = None
    /\ IF flush_thread # None
       THEN /\ pc' = [pc EXCEPT ![t] = "close_join"]
            /\ UNCHANGED << ret, loc >>
       ELSE /\ pc' = [pc EXCEPT ![t] = AfterClose(loc[t].op)]
            /\ ret' = "Ok"
            /\ SetLocals(t, IdleLocals)
    /\ UNCHANGED << options, sst_counter, state, memtables, kvmap, nops,
                    readers, flush_notifier, iterVars >>

\* close and drop: thread.join() returns once the flush thread has returned
CloseJoin(t) ==
    /\ pc[t] = "close_join"
    /\ pc[Flusher] = "exited"
    /\ pc' = [pc EXCEPT ![t] = AfterClose(loc[t].op)]
    /\ ret' = "Ok"
    /\ SetLocals(t, IdleLocals)
    /\ UNCHANGED << options, sst_counter, state, memtables, kvmap, nops,
                    readers, storeVars, iterVars >>

Next ==
    \/ \E key \in Keys, value \in Values : Put(key, value)
    \/ \E key \in Keys : Delete(key)
    \/ Freeze
    \/ Flush

Spec == Init /\ [][Next]_vars

\* values of options.block_max_size_bytes the store is opened with when
\* client threads run: every entry in a block of its own
ThreadBlockMaxSizes == { 4 }

\* values of options.num_memtables_limit the flush thread runs with
NumMemtablesLimits == { 1, 2 }

\* the most operations in one run of the maintenance operations
MaxMaintOps == 4

\* the store opened with each flush threshold, no thread started
InitMaint ==
    /\ options \in [sst_max_size_bytes : SstMaxSizes,
                    block_max_size_bytes : ThreadBlockMaxSizes,
                    num_memtables_limit : NumMemtablesLimits]
    /\ InitStore
    /\ flush_thread = None

\* puts and deletes with the flushes a caller or a ticker asks for
NextMaint ==
    /\ nops < MaxMaintOps
    /\ \/ \E key \in Keys, value \in Values : Put(key, value)
       \/ \E key \in Keys : Delete(key)
       \/ Freeze
       \/ Flush
       \/ Tick
       \/ FlushAll

SpecMaint == InitMaint /\ [][NextMaint]_vars

\* the store opened with a flush thread (MiniLsm::open)
InitThreads ==
    /\ options \in [sst_max_size_bytes : SstMaxSizes,
                    block_max_size_bytes : ThreadBlockMaxSizes,
                    num_memtables_limit : NumMemtablesLimits]
    /\ InitStore
    /\ flush_thread = Some(Flusher)

\* the steps of one client thread
ClientStep(t) ==
    \/ \E key \in ThreadKeys : CallPut(t, key, ClientValue(t))
    \/ \E key \in ThreadKeys : CallGet(t, key)
    \/ \E key \in ThreadKeys : CallDelete(t, key)
    \/ FreezeNew(t)
    \/ FreezeInstallStep(t)
    \/ PutInsert(t)
    \/ PutAddSize(t)
    \/ GetRest(t)
    \/ DeleteAfterGet(t)
    \/ DeletePut(t)

\* the steps of the flush thread
FlusherStep ==
    \/ TriggerFlush
    \/ FlushPickStep
    \/ FlushBuildStep
    \/ FlushInstallStep

\* one client and the flush thread
NextBg == ClientStep("c1") \/ FlusherStep

SpecBg == InitThreads /\ [][NextBg]_vars

\* the steps of close and of the drop of the store in one client thread
CloseStep(t) ==
    \/ CloseSend(t, "close")
    \/ CloseSend(t, "drop")
    \/ CloseTake(t)
    \/ CloseJoin(t)

\* one client that also closes and drops the store, and the flush thread
NextClose ==
    \/ ClientStep("c1")
    \/ CloseStep("c1")
    \/ FlusherStep
    \/ FlushThreadExit

\* the store the closing runs open: every put rotates the memtable, so that
\* the flush thread has work while the store is closed
CloseSstMaxSizes == {2}

\* and the flush thread flushes as soon as one memtable is frozen
CloseNumMemtablesLimits == {1}

InitClose ==
    /\ options \in [sst_max_size_bytes : CloseSstMaxSizes,
                    block_max_size_bytes : ThreadBlockMaxSizes,
                    num_memtables_limit : CloseNumMemtablesLimits]
    /\ InitStore
    /\ flush_thread = Some(Flusher)

SpecClose == InitClose /\ [][NextClose]_vars

\* a thread inside close or inside the flush loop that can take a step is
\* scheduled in the end; the select of the flush thread does not pass over a
\* ready end_flush for ever
FairSpecClose ==
    /\ SpecClose
    /\ WF_vars(CloseTake("c1") \/ CloseJoin("c1"))
    /\ WF_vars(FlusherStep)
    /\ WF_vars(FlushThreadExit)

\* two clients and the flush thread
NextConc == (\E t \in Clients : ClientStep(t)) \/ FlusherStep

SpecConc == InitThreads /\ [][NextConc]_vars

\* ------------------------------------------------------------------------
\* Scan results
\* ------------------------------------------------------------------------

Unbounded == [kind |-> "Unbounded"]

Bounds ==
    {Unbounded} \cup [kind : {"Included", "Excluded"}, key : Keys]

ScanResult(lower, upper) == Collect(StorageScan(state, memtables, lower, upper))

\* C1: get answers like a plain key-to-value map, wherever rotations and
\* flushes fall in the sequence of puts and deletes
GetMatchesMap == \A key \in Keys : StorageGet(state, memtables, key) = Expected(key)

\* puts with pairwise distinct keys, interleaved with rotations and flushes
PutFresh(key, value) == kvmap[key] = None /\ Put(key, value)

NextDistinct ==
    \/ \E key \in Keys, value \in Values : PutFresh(key, value)
    \/ Freeze
    \/ Flush

SpecDistinct == Init /\ [][NextDistinct]_vars

KeysOf(kvs) == [i \in 1..Len(kvs) |-> kvs[i].key.key]

\* C2: a full scan yields exactly the put keys, each once, in ascending order
ScanYieldsPutKeys ==
    KeysOf(ScanResult(Unbounded, Unbounded))
        = SortedKeys({ key \in Keys : kvmap[key] # None })

\* C3: every entry a scan yields has its key inside the query bounds
ScanWithinBounds ==
    \A lower \in Bounds, upper \in Bounds :
       LET out == ScanResult(lower, upper)
       IN \A i \in 1..Len(out) :
            /\ InLowerBound(out[i].key.key, lower)
            /\ InUpperBound(out[i].key.key, upper)

\* C5: the first version of a key a full scan yields is the newest one
ScanNewestFirst ==
    LET out == ScanResult(Unbounded, Unbounded)
    IN \A key \in Keys :
         LET at == { i \in 1..Len(out) : out[i].key.key = key }
         IN at # {} =>
              out[CHOOSE i \in at : \A j \in at : i <= j].value = kvmap[key][1]

\* a value read from an L0 SST, and a tombstone in a memtable that shadows
\* an older value held by an L0 SST
GetReadsSstAndTombstone ==
    /\ GetMatchesMap
    /\ \E key \in Keys :
         /\ Expected(key) # None
         /\ MemTableGet(memtables[state.current_memtable], key) = None
         /\ FrozenGet(memtables, state.frozen_memtables, key) = None
    /\ \E key \in Keys :
         /\ kvmap[key] = Some(TOMBSTONE)
         /\ SstsGet(state.ssts, key) # None

\* C4: delete of a key that get reports absent fails with the key-not-found
\* error and changes nothing in the store
DeleteAbsentFails ==
    [][\A key \in Keys :
         (Delete(key) /\ StorageGet(state, memtables, key) = None) =>
            /\ ret' = "KeyNotFound"
            /\ UNCHANGED << state, memtables, sst_counter, kvmap >>]_vars

\* a delete has just failed on a key whose last write was a delete
DeleteFailedAfterDelete ==
    /\ ret = "KeyNotFound"
    /\ \E key \in Keys : kvmap[key] = Some(TOMBSTONE)
    /\ \A key \in Keys : kvmap[key] \in {None, Some(TOMBSTONE)}

\* what C8 says one put(key, value) does to the memtables
PutRotationRule(key, value) ==
    LET cur == state.current_memtable
        size == memtables[cur].size_bytes
        len == Len(key) + Len(value)
        new == state'.current_memtable
    IN IF size # 0 /\ size + len > options.sst_max_size_bytes
       THEN /\ new # cur
            /\ state'.frozen_memtables = << cur >> \o state.frozen_memtables
            /\ memtables'[cur].entries = memtables[cur].entries
            /\ DOMAIN memtables'[new].entries = {key}
            /\ memtables'[new].entries[key] = value
            /\ memtables'[new].size_bytes = len
       ELSE /\ new = cur
            /\ state'.frozen_memtables = state.frozen_memtables
            /\ DOMAIN memtables'[cur].entries = DOMAIN memtables[cur].entries \cup {key}
            /\ memtables'[cur].entries[key] = value
            /\ memtables'[cur].size_bytes = size + len

\* C8: put rotates exactly when the memtable is non-empty and the entry
\* would exceed the budget; after a rotation the new memtable holds only
\* the entry just put
PutRotatesOnOverflow ==
    [][\A key \in Keys, value \in Values :
         Put(key, value) => PutRotationRule(key, value)]_vars

\* two puts, the second rotated, and each entry alone exceeds the budget
PutRotatedOverBudget ==
    /\ nops = 2
    /\ Len(state.frozen_memtables) = 1
    /\ memtables[state.frozen_memtables[1]].size_bytes > options.sst_max_size_bytes
    /\ Cardinality(DOMAIN memtables[state.current_memtable].entries) = 1
    /\ memtables[state.current_memtable].size_bytes > options.sst_max_size_bytes


\* ------------------------------------------------------------------------
\* Threads: properties
\* ------------------------------------------------------------------------

ClientsIdle == \A t \in Clients : pc[t] = "idle"

\* C6: when two threads put the same key, then once both calls have returned
\* get answers the value whose insert came last, also when a rotation or a
\* flush came between the two inserts
LastInsertWins == ClientsIdle => GetMatchesMap

\* both clients wrote one key, a rotation came between the inserts, both
\* calls returned, and get answers the later value
LastInsertWonAcrossRotation ==
    /\ ClientsIdle
    /\ \E key \in Keys :
         /\ MemTableGet(memtables[state.current_memtable], key)
               = Some(ClientValue("c2"))
         /\ \/ FrozenGet(memtables, state.frozen_memtables, key)
                  = Some(ClientValue("c1"))
            \/ /\ state.frozen_memtables = << >>
               /\ SstsGet(state.ssts, key) = Some(ClientValue("c1"))
         /\ StorageGet(state, memtables, key) = Some(ClientValue("c2"))

\* C7: a get that runs while memtables are frozen and flushed returns a value
\* the key held at some moment of the get
GetSeesValueOfItsInterval ==
    [][\A t \in Clients : GetRest(t) => loc'[t].res \in loc[t].seen]_vars

\* a get has missed in the current memtable and is about to find its key in
\* the frozen memtable that the flush thread is waiting to retire
GetOverlapsFlush ==
    \E t \in Clients :
       /\ pc[t] = "get_rest" /\ loc[t].op = "get"
       /\ loc[t].res = None
       /\ pc[Flusher] = "flush_install"
       /\ MemTableGet(memtables[loc[Flusher].picked[1]], loc[t].key) # None

\* C9: in every published state the current memtable is mutable and every
\* frozen memtable is immutable
CurrentMutableFrozenImmutable ==
    /\ memtables[state.current_memtable].mutable
    /\ \A i \in 1..Len(state.frozen_memtables) :
          ~memtables[state.frozen_memtables[i]].mutable

\* two frozen memtables are published while a client is about to insert
TwoFrozenDuringPut ==
    /\ Len(state.frozen_memtables) >= 2
    /\ \E t \in Clients : pc[t] = "put_insert"

\* the ids of one snapshot from newest to oldest
SnapshotIds ==
    << state.current_memtable >> \o state.frozen_memtables \o state.l0_sst_ids

\* C10: with one client and the flush thread, ids strictly decrease from the
\* current memtable through the frozen memtables to the L0 SSTs
IdsStrictlyDecrease ==
    \A i \in 1..(Len(SnapshotIds) - 1) : SnapshotIds[i] > SnapshotIds[i + 1]

\* a frozen memtable and an L0 SST are published together
FrozenAndSst ==
    /\ Len(state.frozen_memtables) >= 1
    /\ Len(state.l0_sst_ids) >= 1

\* ------------------------------------------------------------------------
\* Flushes
\* ------------------------------------------------------------------------

\* the entries a block holds, decoded one offset after the other
BlockEntries(block) ==
    [i \in 1..Len(block.offsets) |->
       ParseCurrentKv(block, BlockGetFirstKey(block), i - 1)[1]]

\* the entries an SST file holds, block after block from block_index on
RECURSIVE SstEntriesFrom(_, _)
SstEntriesFrom(sst, block_index) ==
    IF block_index >= Len(sst.meta_blocks) THEN << >>
    ELSE BlockEntries(LoadBlockToMem(sst, block_index))
           \o SstEntriesFrom(sst, block_index + 1)

SstEntries(sst) == SstEntriesFrom(sst, 0)

\* the entries of a memtable in key order
MemTableEntries(memtable) ==
    LET ks == SortedKeys(DOMAIN memtable.entries)
    IN [i \in 1..Len(ks) |-> KeyValuePair(ks[i], memtable.entries[ks[i]])]

FlushRule ==
    LET frozen == state.frozen_memtables
        oldest == frozen[Len(frozen)]
    IN IF frozen = << >>
       THEN /\ ret' = "Ok"
            /\ UNCHANGED << state, memtables, sst_counter >>
       ELSE /\ ret' = "Ok"
            /\ state'.frozen_memtables = SubSeq(frozen, 1, Len(frozen) - 1)
            /\ state'.current_memtable = state.current_memtable
            /\ state'.l0_sst_ids = << memtables[oldest].id >> \o state.l0_sst_ids
            /\ Len(state'.ssts) = Len(state.ssts) + 1
            /\ Tail(state'.ssts) = state.ssts
            /\ state'.ssts[1].id = memtables[oldest].id
            /\ SstEntries(state'.ssts[1]) = MemTableEntries(memtables[oldest])

\* C11: flush_next_memtable_to_l0 retires exactly the oldest frozen memtable
\* and puts at the front of L0 one SST with that memtable's id and entries;
\* with nothing frozen it returns Ok and changes nothing
FlushMovesOldestToL0 == [][Flush => FlushRule]_vars

\* the older of two frozen memtables was flushed into an SST that holds its
\* entry, and the newer one is still frozen
FlushedOldestOfTwo ==
    /\ Len(state.frozen_memtables) = 1
    /\ state.ssts # << >>
    /\ state.ssts[1].id < state.frozen_memtables[1]
    /\ state.l0_sst_ids[1] = state.ssts[1].id
    /\ Len(SstEntries(state.ssts[1])) >= 1

FlushAllRule ==
    ret' = "Ok" =>
       /\ state'.frozen_memtables = << >>
       /\ Len(state'.ssts) = Len(state.ssts) + Len(state.frozen_memtables) + 1
       /\ Len(state'.l0_sst_ids) = Len(state'.ssts)
       /\ \A key \in Keys :
            StorageGet(state', memtables', key) = StorageGet(state, memtables, key)

\* C12: after flush_all_memtables returns Ok nothing is frozen, L0 has grown
\* by the number of memtables frozen before plus one, and every key reads as
\* before
FlushAllEmptiesMemtables == [][FlushAll => FlushAllRule]_vars

\* nothing is frozen, the current memtable is empty, two SSTs or more are in
\* L0 and a key is read from them
AllFlushedAndReadable ==
    /\ state.frozen_memtables = << >>
    /\ DOMAIN memtables[state.current_memtable].entries = {}
    /\ Len(state.ssts) >= 2
    /\ \E key \in Keys : StorageGet(state, memtables, key) # None

TriggerFlushRule ==
    IF Len(state.frozen_memtables) >= options.num_memtables_limit
    THEN /\ Len(state'.frozen_memtables) = Len(state.frozen_memtables) - 1
         /\ Len(state'.ssts) = Len(state.ssts) + 1
         /\ state'.current_memtable = state.current_memtable
    ELSE UNCHANGED << state, memtables, sst_counter >>

\* C13: trigger_flush flushes exactly one memtable when the number of frozen
\* memtables has reached num_memtables_limit, and otherwise changes nothing
TriggerFlushOnlyAtLimit == [][Tick => TriggerFlushRule]_vars

\* with a limit of two, one of two frozen memtables has been flushed and the
\* other one stays frozen
OneFlushedAtLimitTwo ==
    /\ options.num_memtables_limit = 2
    /\ Len(state.frozen_memtables) = 1
    /\ Len(state.ssts) = 1
    /\ state.ssts[1].id < state.frozen_memtables[1]

\* ------------------------------------------------------------------------
\* Shutdown
\* ------------------------------------------------------------------------

Closing(t) == pc[t] \in { "close_lock", "close_join" }

\* C14: every close and every drop returns in the end, and when it has
\* returned the flush thread has exited and no join handle is stored
CloseReturns ==
    \A t \in {"c1"} :
       Closing(t) ~> (/\ ~Closing(t)
                      /\ pc[Flusher] = "exited"
                      /\ flush_thread = None)

\* the flush thread flushed a memtable and exited, the store was closed and
\* then dropped
ClosedThenDropped ==
    /\ pc["c1"] = "dropped"
    /\ pc[Flusher] = "exited"
    /\ flush_thread = None
    /\ flush_notifier = 0
    /\ state.ssts # << >>

\* ------------------------------------------------------------------------
\* Single objects under study: a memtable, range_overlap, the merge iterators
\* ------------------------------------------------------------------------

lsmVars == << options, sst_counter, state, memtables, kvmap, nops, ret,
              pc, loc, readers, storeVars >>

\* no store is open
NoStore ==
    /\ options = << >>
    /\ sst_counter = 0
    /\ state = << >>
    /\ memtables = << >>
    /\ kvmap = << >>
    /\ nops = 0
    /\ ret = "Ok"
    /\ pc = [t \in Threads |-> "idle"]
    /\ loc = [t \in Threads |-> IdleLocals]
    /\ readers = {}
    /\ flush_notifier = 0
    /\ flush_thread = None

\* the keys and the values, tombstone included, of the entries of a source
SourceKeys == { << 1, 1 >>, << 2 >> }

SourceValues == Values \cup {TOMBSTONE}

\* the contents a memtable can have
SourceMaps == UNION { [D -> SourceValues] : D \in SUBSET SourceKeys }

\* the memtable id after the puts that give it the contents f
RECURSIVE MemTableAfterPuts(_, _, _)
MemTableAfterPuts(memtable, f, ks) ==
    IF ks = << >> THEN memtable
    ELSE MemTableAfterPuts(MemTablePut(memtable, Head(ks), f[Head(ks)]).memtable,
                           f, Tail(ks))

MemTableWith(id, f) ==
    MemTableAfterPuts(NewMemTable(id), f, SortedKeys(DOMAIN f))

\* the most calls of freeze on one memtable
MaxFreezeCalls == 3

InitFreeze ==
    /\ NoStore
    /\ inp \in { MemTableWith(0, f) : f \in SourceMaps }
    /\ iter = << >>
    /\ results = << >>

\* one thread calls freeze on the memtable: one compare_exchange
FreezeCall(t) ==
    /\ Len(results) < MaxFreezeCalls
    /\ LET frozen == MemTableFreeze(inp)
       IN /\ inp' = frozen.memtable
          /\ results' = Append(results, [thread |-> t, ok |-> frozen.ok])
    /\ UNCHANGED << lsmVars, iter >>

NextFreeze == \E t \in Threads : FreezeCall(t)

SpecFreeze == InitFreeze /\ [][NextFreeze]_vars

\* C15: the first freeze of a memtable succeeds and every later one fails,
\* whichever threads call
FreezeSucceedsOnce ==
    /\ \A i \in 1..Len(results) : results[i].ok <=> i = 1
    /\ results # << >> => ~inp.mutable

\* one thread froze the memtable, then another thread and the first thread
\* again were refused
FreezeRefusedTwice ==
    /\ Len(results) >= 3
    /\ results[1].ok
    /\ results[2].thread # results[1].thread
    /\ ~results[2].ok
    /\ results[3].thread = results[1].thread
    /\ ~results[3].ok

\* a query range and the first and last key of an SST
InitOverlap ==
    /\ NoStore
    /\ inp \in { r \in [query_lower : Bounds, query_upper : Bounds,
                        first_key : Keys, last_key : Keys] :
                 BytesLeq(r.first_key, r.last_key) }
    /\ iter = << >>
    /\ results = << >>

\* scan asks whether the SST overlaps the query range
OverlapCall ==
    /\ results = << >>
    /\ results' = << range_overlap(inp.query_lower, inp.query_upper,
                                   NewTimestampedKey(inp.first_key),
                                   NewTimestampedKey(inp.last_key)) >>
    /\ UNCHANGED << lsmVars, inp, iter >>

NextOverlap == OverlapCall

SpecOverlap == InitOverlap /\ [][NextOverlap]_vars

\* C16: range_overlap is false exactly when the upper bound is below the first
\* key (upper < first when Included, upper <= first when Excluded) or the
\* lower bound is above the last key (lower > last when Included,
\* lower >= last when Excluded)
RangeOverlapByBounds ==
    results # << >> =>
        LET below ==
                \/ /\ inp.query_upper.kind = "Included"
                   /\ BytesLess(inp.query_upper.key, inp.first_key)
                \/ /\ inp.query_upper.kind = "Excluded"
                   /\ BytesLeq(inp.query_upper.key, inp.first_key)
            above ==
                \/ /\ inp.query_lower.kind = "Included"
                   /\ BytesLess(inp.last_key, inp.query_lower.key)
                \/ /\ inp.query_lower.kind = "Excluded"
                   /\ BytesLeq(inp.last_key, inp.query_lower.key)
        IN results[1] <=> ~(below \/ above)

\* the most sources of one MergeIterator
MaxSources == 3

\* the contents of the sources, source 0 first
SourceLists == UNION { [1..n -> SourceMaps] : n \in 1..MaxSources }

\* the iterators over the whole of each source
SourceIterators(sources) ==
    [i \in 1..Len(sources) |->
        NewMemTableIterator(MemTableWith(i - 1, sources[i]), Unbounded, Unbounded)]

InitMerge ==
    /\ NoStore
    /\ inp \in SourceLists
    /\ iter = NewMergeIterator(SourceIterators(inp))
    /\ results = << >>

\* the caller peeks, then calls next, which yields an entry; source is the
\* index of the source the entry came from
MergeNext ==
    /\ LET peeked == MergeIteratorPeek(iter)
           stepped == MergeIteratorNext(iter)
       IN /\ stepped.res # None
          /\ iter' = stepped.it
          /\ results' = Append(results, [peek |-> peeked, next |-> stepped.res[1],
                                         source |-> HeapTop(iter.heap).index])
    /\ UNCHANGED << lsmVars, inp >>

NextMerge == MergeNext

SpecMerge == InitMerge /\ [][NextMerge]_vars

\* next returns None
MergeExhausted == MergeIteratorNext(iter).res = None

\* the entries of the sources
SourceEntries == { KeyValuePair(k, v) : k \in SourceKeys, v \in SourceValues }

\* how many sources hold the entry kv
CountInSources(sources, kv) ==
    Cardinality({ i \in DOMAIN sources :
                    /\ kv.key.key \in DOMAIN sources[i]
                    /\ sources[i][kv.key.key] = kv.value })

\* how many times the entry kv was yielded
CountYielded(kv) == Cardinality({ i \in DOMAIN results : results[i].next = kv })

\* C17: over sources that stay valid a MergeIterator yields entries in
\* non-decreasing key order, at its end it has yielded each entry as many
\* times as the sources hold it, and peek returned what next then yielded
MergeYieldsSortedUnion ==
    /\ \A i, j \in DOMAIN results :
         i < j => BytesLeq(results[i].next.key.key, results[j].next.key.key)
    /\ \A kv \in SourceEntries : CountYielded(kv) <= CountInSources(inp, kv)
    /\ MergeExhausted =>
         \A kv \in SourceEntries : CountYielded(kv) = CountInSources(inp, kv)
    /\ \A i \in DOMAIN results : results[i].peek = Some(results[i].next)

\* three sources are merged to the end: one entry is in two of them and both
\* keys were yielded
MergedThreeSources ==
    /\ Len(inp) = 3
    /\ MergeExhausted
    /\ Len(results) >= 4
    /\ \E kv \in SourceEntries : CountYielded(kv) = 2
    /\ \E i, j \in DOMAIN results : results[i].next.key # results[j].next.key

\* C18: of the entries with the same key the one of the source with the
\* lower index is yielded first, whatever the values
MergeLowerIndexFirst ==
    \A i, j \in DOMAIN results :
        i < j /\ results[i].next.key = results[j].next.key
            => results[i].source < results[j].source

\* the sources of the two merged iterators: X merges one or two sources,
\* Y one
InitTwoMerge ==
    /\ NoStore
    /\ \E n \in 1..2 :
         \E xs \in [1..n -> SourceMaps], ys \in [1..1 -> SourceMaps] :
            inp = [x |-> xs, y |-> ys]
    /\ iter = NewTwoMergeIterator(NewMergeIterator(SourceIterators(inp.x)),
                                  NewMergeIterator(SourceIterators(inp.y)))
    /\ results = << >>

\* the caller calls next, which yields an entry; x and y are the entries the
\* two sub-iterators were positioned at, from_y tells which one was advanced
TwoMergeNext ==
    /\ \E stepped \in { TwoMergeIteratorNext(iter) } :
          /\ stepped.res # None
          /\ iter' = stepped.it
          /\ results' = Append(results,
                 [x |-> MergeIteratorPeek(iter.sub_iters[1]),
                  y |-> MergeIteratorPeek(iter.sub_iters[2]),
                  next |-> stepped.res[1],
                  from_y |-> iter.current_iter_index])
    /\ UNCHANGED << lsmVars, inp >>

NextTwoMerge == TwoMergeNext

SpecTwoMerge == InitTwoMerge /\ [][NextTwoMerge]_vars

\* C19: when both sub-iterators are positioned at the same key, the entry of
\* X is the one yielded, whatever the two values
TwoMergeYieldsXFirst ==
    \A i \in DOMAIN results :
        (/\ results[i].x # None
         /\ results[i].y # None
         /\ results[i].x[1].key = results[i].y[1].key)
            => ~results[i].from_y /\ results[i].next = results[i].x[1]

\* next returns None
TwoMergeExhausted == TwoMergeIteratorNext(iter).res = None

CountYieldedByTwo(kv) ==
    Cardinality({ i \in DOMAIN results : results[i].next = kv })

\* C20: a TwoMergeIterator over two key-sorted valid sub-iterators yields
\* entries in non-decreasing key order, goes on with one sub-iterator when the
\* other is exhausted, and ends only when both are exhausted, having yielded
\* every entry of both
TwoMergeYieldsBoth ==
    /\ \A i, j \in DOMAIN results :
         i < j => BytesLeq(results[i].next.key.key, results[j].next.key.key)
    /\ \A kv \in SourceEntries :
         CountYieldedByTwo(kv) <= CountInSources(inp.x, kv) + CountInSources(inp.y, kv)
    /\ TwoMergeExhausted =>
         /\ MergeIteratorPeek(iter.sub_iters[1]) = None
         /\ MergeIteratorPeek(iter.sub_iters[2]) = None
         /\ \A kv \in SourceEntries :
              CountYieldedByTwo(kv)
                  = CountInSources(inp.x, kv) + CountInSources(inp.y, kv)

\* both sub-iterators yielded, X went on after Y was exhausted, and the
\* iterator ended
DrainedXAfterY ==
    /\ TwoMergeExhausted
    /\ \E i, j \in DOMAIN results :
         /\ i < j
         /\ results[i].from_y
         /\ results[j].y = None
         /\ ~results[j].from_y
    /\ \E i \in DOMAIN results : ~results[i].from_y /\ results[i].y # None

\* ------------------------------------------------------------------------
\* Single objects under study: SSTs, their iterators and their blocks
\* ------------------------------------------------------------------------

\* the contents an SST can have: it is built from a memtable that is not empty
SstMaps == UNION { [D -> SourceValues] : D \in (SUBSET Keys) \ {{}} }

\* the SST flush_next_memtable_to_l0 builds from the memtable with contents f
SstOf(f, block_max_size_bytes, fp) ==
    SSTBuilderBuild(FlushBuild(MemTableWith(0, f), block_max_size_bytes).sb, 0, fp)

\* the most calls of next on one iterator over an SST or a block
MaxIterCalls == 4

\* the entries successive calls of next on an SSTIterator return
RECURSIVE SstStream(_)
SstStream(it) ==
    LET stepped == SSTIteratorNext(it)
    IN IF stepped.res = None THEN << >>
       ELSE << stepped.res[1] >> \o SstStream(stepped.it)

\* an SST and the upper bound of a scan over it
InitBounded ==
    /\ NoStore
    /\ inp \in [f : SstMaps, block_max_size_bytes : BlockMaxSizes, upper : Bounds]
    /\ iter = NewBoundedIterator(
                  SSTIteratorCreateAndSeekToFirst(
                      SstOf(inp.f, inp.block_max_size_bytes, {})), inp.upper)
    /\ results = << >>

\* the caller peeks, then calls next
BoundedNext ==
    /\ Len(results) < MaxIterCalls
    /\ \E stepped \in { BoundedIteratorNext(iter) } :
          /\ iter' = stepped.it
          /\ results' = Append(results,
                 [peek |-> BoundedIteratorPeek(iter),
                  next |-> stepped.res,
                  advanced |-> stepped.it.sub_iterator # iter.sub_iterator])
    /\ UNCHANGED << lsmVars, inp >>

NextBounded == BoundedNext

SpecBounded == InitBounded /\ [][NextBounded]_vars

\* the longest prefix of a stream of entries whose keys are within upper
RECURSIVE PrefixWithin(_, _)
PrefixWithin(stream, upper) ==
    IF stream = << >> \/ ~InUpperBound(Head(stream).key.key, upper) THEN << >>
    ELSE << Head(stream) >> \o PrefixWithin(Tail(stream), upper)

\* the entries the calls of next have returned so far
RECURSIVE Yielded(_)
Yielded(rs) ==
    IF rs = << >> THEN << >>
    ELSE IF Head(rs).next = None THEN Yielded(Tail(rs))
    ELSE << Head(rs).next[1] >> \o Yielded(Tail(rs))

\* C21: a BoundedIterator yields exactly the longest prefix of its
\* sub-iterator's stream whose keys are within the upper bound; from the call
\* that finds the next key beyond the bound on, peek and next return nothing
\* and the sub-iterator is not advanced
BoundedYieldsPrefix ==
    LET stream == SstStream(SSTIteratorCreateAndSeekToFirst(
                      SstOf(inp.f, inp.block_max_size_bytes, {})))
        prefix == PrefixWithin(stream, inp.upper)
        yielded == Yielded(results)
    IN /\ Len(yielded) <= Len(prefix)
       /\ yielded = SubSeq(prefix, 1, Len(yielded))
       /\ \A i \in DOMAIN results :
            results[i].next = None =>
               /\ Len(Yielded(SubSeq(results, 1, i))) = Len(prefix)
               /\ ~results[i].advanced
               /\ \A j \in DOMAIN results :
                    j >= i => results[j].next = None /\ results[j].peek = None

\* ------------------------------------------------------------------------
\* The bloom filter as a bit vector
\* ------------------------------------------------------------------------

\* a u32 as its two 16-bit halves << high, low >>
U32WrappingAdd(a, b) ==
    LET low == a[2] + b[2]
    IN << (a[1] + b[1] + (low \div 65536)) % 65536, low % 65536 >>

\* a u32 modulo m
U32Mod(a, m) == (((a[1] % m) * (65536 % m)) + (a[2] % m)) % m

\* -n ln(0.01) / ln(2)^2, rounded up and padded to whole bytes
GetBitArrLen(n) ==
    LET m == (9585059 * n + 999999) \div 1000000
    IN 8 * ((m + 7) \div 8)

\* m / n * ln(2), rounded
GetNumHashFunctions(m, n) == (m * 6931472 + 5000000 * n) \div (10000000 * n)

\* the k indices of a key whose 64-bit hash has the halves h1 and h2
RECURSIVE KmIndices(_, _, _, _)
KmIndices(km_hash, h2, m, k) ==
    IF k = 0 THEN << >>
    ELSE << U32Mod(km_hash, m) >> \o KmIndices(U32WrappingAdd(km_hash, h2), h2, m, k - 1)

GetIndicesForKey(hash64, m, k) == KmIndices(hash64.h1, hash64.h2, m, k)

\* variant: the key is looked up with one hash function more than it was
\* stored with
BitVecMaybeContainsOneMore(bloom, hash64) ==
    LET indices == GetIndicesForKey(hash64, Len(bloom.bit_vec), bloom.k + 1)
    IN \A i \in DOMAIN indices : bloom.bit_vec[indices[i] + 1]

\* BloomFilter::maybe_contains
BitVecMaybeContains(bloom, hash64) ==
    LET indices == GetIndicesForKey(hash64, Len(bloom.bit_vec), bloom.k)
    IN \A i \in DOMAIN indices : bloom.bit_vec[indices[i] + 1]

\* BloomFilter::from_keys; xxh3_64 is the function hash
BitVecFromKeys(keys, hash) ==
    LET n == Len(keys)
        m == GetBitArrLen(n)
        k == GetNumHashFunctions(m, n)
        set == { GetIndicesForKey(hash[keys[j].key], m, k)[i] :
                   j \in 1..n, i \in 1..k }
    IN [bit_vec |-> [b \in 1..m |-> (b - 1) \in set], k |-> k]

\* the halves a hash can have: small ones and ones whose sum wraps
HashHalves == { << 0, 3 >>, << 65535, 65534 >> }

\* Sst::maybe_contains_key of the SST that holds the filter bloom
BitVecSstMaybeContainsKey(sst, bloom, hash, key) ==
    /\ BitVecMaybeContains(bloom, hash[key])
    /\ BytesLeq(SstGetFirstKey(sst).key, key)
    /\ BytesLeq(key, SstGetLastKey(sst).key)

\* an SST built with a hash function; its filter is in iter
InitBloom ==
    /\ NoStore
    /\ inp \in [f : SstMaps, block_max_size_bytes : BlockMaxSizes,
                hash : [Keys -> [h1 : HashHalves, h2 : HashHalves]]]
    /\ iter = BitVecFromKeys(
                  FlushBuild(MemTableWith(0, inp.f), inp.block_max_size_bytes).sb.all_keys,
                  inp.hash)
    /\ results = << >>

\* get asks the SST whether it may hold key
MaybeContainsKeyCall(key) ==
    /\ results = << >>
    /\ results' = << [key |-> key,
                      maybe |-> BitVecSstMaybeContainsKey(
                                    SstOf(inp.f, inp.block_max_size_bytes, {}),
                                    iter, inp.hash, key)] >>
    /\ UNCHANGED << lsmVars, inp, iter >>

NextBloom == \E key \in Keys : MaybeContainsKeyCall(key)

SpecBloom == InitBloom /\ [][NextBloom]_vars

\* C22: maybe_contains_key is true of every key added to the SST, and get
\* finds the key in the SST
AddedKeysMaybeContained ==
    \A i \in DOMAIN results :
        results[i].key \in DOMAIN inp.f =>
           /\ results[i].maybe
           /\ SstsGet(<< SstOf(inp.f, inp.block_max_size_bytes, {}) >>,
                      results[i].key)
                = IF inp.f[results[i].key] = TOMBSTONE THEN None
                  ELSE Some(inp.f[results[i].key])

\* a key of an SST with three keys was looked up through a hash whose sum
\* wraps, and not every bit of the filter is set
AddedKeyFoundInFilter ==
    /\ results # << >>
    /\ Cardinality(DOMAIN inp.f) = 3
    /\ results[1].key \in DOMAIN inp.f
    /\ results[1].maybe
    /\ inp.hash[results[1].key] = [h1 |-> << 65535, 65534 >>, h2 |-> << 65535, 65534 >>]
    /\ \E b \in DOMAIN iter.bit_vec : ~iter.bit_vec[b]

\* ------------------------------------------------------------------------
\* One block: built, encoded, decoded and iterated
\* ------------------------------------------------------------------------

\* keys that share prefixes with one another
BlockKeys == { <<1>>, <<1, 1>>, <<1, 2>>, <<2>> }

BlockMaps == UNION { [D -> SourceValues] : D \in (SUBSET BlockKeys) \ {{}} }

\* block sizes that hold two entries and every entry
BlockSizes == { 21, 64 }

\* the entries of f in key order
BlockInput(f) ==
    LET keys == SortedKeys(DOMAIN f)
    IN [i \in 1..Len(keys) |-> KeyValuePair(keys[i], f[keys[i]])]

\* a block builder, the entries to offer it, and a key to seek
InitBlock ==
    /\ NoStore
    /\ inp \in [f : BlockMaps, block_size : BlockSizes,
                key : BlockKeys \cup { <<0>>, <<3>> }]
    /\ iter = [stage |-> "build", bb |-> NewBlockBuilder(inp.block_size),
               offered |-> 0, added |-> << >>, block |-> None,
               decoded |-> None, it |-> None]
    /\ results = << >>

\* BlockBuilder::add of the next entry
BlockAdd ==
    /\ iter.stage = "build"
    /\ iter.offered < Len(BlockInput(inp.f))
    /\ \E kv \in { BlockInput(inp.f)[iter.offered + 1] } :
         \E added \in { BlockBuilderAdd(iter.bb, kv) } :
           iter' = [iter EXCEPT
                      !.offered = iter.offered + 1,
                      !.bb = added.bb,
                      !.added = IF added.ok THEN Append(iter.added, kv)
                                ELSE iter.added]
    /\ UNCHANGED << lsmVars, inp, results >>

\* BlockBuilder::build, Block::encode, Block::decode, and an iterator at the
\* first entry of the decoded block
BlockBuild ==
    /\ iter.stage = "build"
    /\ iter.added # << >>
    /\ \E block \in { BlockBuilderBuild(iter.bb) } :
         \E decoded \in { BlockDecode(BlockEncode(block)) } :
           iter' = [iter EXCEPT
                      !.stage = "iterate",
                      !.block = Some(block),
                      !.decoded = Some(decoded),
                      !.it = Some(BlockIteratorCreateAndSeekToFirst(decoded))]
    /\ UNCHANGED << lsmVars, inp, results >>

\* BlockIterator::seek_to_key on the fresh iterator
BlockSeek ==
    /\ iter.stage = "iterate"
    /\ results = << >>
    /\ iter' = [iter EXCEPT
                  !.stage = "sought",
                  !.it = Some(BlockIteratorSeekToKey(
                                  iter.it[1], NewTimestampedKey(inp.key)))]
    /\ UNCHANGED << lsmVars, inp, results >>

\* BlockIterator::next, until it has returned nothing
BlockNext ==
    /\ iter.stage \in { "iterate", "sought" }
    /\ \A i \in { Len(results) } \ { 0 } : results[i] # None
    /\ \E stepped \in { BlockIteratorNext(iter.it[1]) } :
         /\ iter' = [iter EXCEPT !.it = Some(stepped.it)]
         /\ results' = Append(results, stepped.res)
    /\ UNCHANGED << lsmVars, inp >>

NextBlock == BlockAdd \/ BlockBuild \/ BlockSeek \/ BlockNext

SpecBlock == InitBlock /\ [][NextBlock]_vars

\* C23: a block round-trips through encode and decode, and iterating it from
\* the first entry yields the entries that were added, in order, and then
\* nothing
BlockRoundTrips ==
    /\ iter.stage # "build" => iter.decoded = iter.block
    /\ iter.stage = "iterate" =>
         /\ \A i \in DOMAIN results :
              results[i] = IF i <= Len(iter.added) THEN Some(iter.added[i])
                           ELSE None
         /\ (results # << >> /\ results[Len(results)] = None)
               => Len(results) = Len(iter.added) + 1

\* a block of three or more entries, one of them with a key that extends the
\* first key and one a tombstone, was iterated to its end
BlockIteratedToEnd ==
    /\ iter.stage = "iterate"
    /\ Len(iter.added) >= 3
    /\ \E i \in 2..Len(iter.added) :
         KeyOverlapLen(iter.added[i].key.key, iter.added[1].key.key) > 0
    /\ \E i \in DOMAIN iter.added : iter.added[i].value = TOMBSTONE
    /\ Len(results) = Len(iter.added) + 1
    /\ results[Len(results)] = None

\* the first added entry whose key is not below key, if any
FirstAtOrAbove(added, key) ==
    LET at == { i \in DOMAIN added : BytesLeq(key, added[i].key.key) }
    IN IF at = {} THEN None
       ELSE Some(added[CHOOSE i \in at : \A j \in at : i <= j])

\* C30: seek_to_key leaves the cursor on the first entry whose key is not
\* below the key sought, and past the last entry when every key is below it
SeekToKeyFindsFirstAtOrAbove ==
    iter.stage = "sought" =>
        /\ BlockIteratorPeek(iter.it[1]) = FirstAtOrAbove(iter.added, inp.key)
           \/ results # << >>
        /\ results # << >> => results[1] = FirstAtOrAbove(iter.added, inp.key)

\* ------------------------------------------------------------------------
\* One SST iterator: created at the first entry or at a stored key
\* ------------------------------------------------------------------------

\* an SST and where its iterator starts: at the first entry, or at a key
\* the SST stores
InitSstIter ==
    /\ NoStore
    /\ \E f \in SstMaps, block_max_size_bytes \in BlockMaxSizes :
         \E seek \in { None } \cup { Some(k) : k \in DOMAIN f } :
           /\ inp = [f |-> f, block_max_size_bytes |-> block_max_size_bytes,
                     seek |-> seek]
           /\ \E sst \in { SstOf(f, block_max_size_bytes, {}) } :
                iter = IF seek = None
                       THEN SSTIteratorCreateAndSeekToFirst(sst)
                       ELSE SSTIteratorCreateAndSeekToKey(
                                sst, NewTimestampedKey(seek[1]))
    /\ results = << >>

\* peek and then next, until next has returned nothing
SstIterNext ==
    /\ \A i \in { Len(results) } \ { 0 } : results[i].next # None
    /\ \E stepped \in { SSTIteratorNext(iter) } :
         /\ iter' = stepped.it
         /\ results' = Append(results, [peek |-> SSTIteratorPeek(iter),
                                        next |-> stepped.res])
    /\ UNCHANGED << lsmVars, inp >>

NextSstIter == SstIterNext

SpecSstIter == InitSstIter /\ [][NextSstIter]_vars

\* the entries of the SST from the start of the iteration on, in key order
EntriesFromSeek ==
    LET keys == SortedKeys({ k \in DOMAIN inp.f :
                               inp.seek = None \/ BytesLeq(inp.seek[1], k) })
    IN [i \in 1..Len(keys) |-> KeyValuePair(keys[i], inp.f[keys[i]])]

\* C28: the iterator yields every entry from its start to the end of the
\* SST exactly once, in ascending order, whatever the block layout
SstIterYieldsEveryEntry ==
    /\ \A i \in DOMAIN results :
         results[i].next = IF i <= Len(EntriesFromSeek)
                           THEN Some(EntriesFromSeek[i]) ELSE None
    /\ \A i \in DOMAIN results :
         results[i].next = None => i = Len(EntriesFromSeek) + 1

\* C29: when peek returns an entry, the next call of next returns that entry
SstIterNextReturnsPeeked ==
    \A i \in DOMAIN results :
        results[i].peek # None => results[i].next = results[i].peek

\* C25: a get holds the shared lock only to clone the snapshot pointer, so
\* no get is inside its lookups with the lock held while a freeze or a
\* flush is waiting to install its new snapshot
GetLookupsHoldNoLock ==
    \A w \in Threads :
        pc[w] \in { "freeze_install", "flush_install" } =>
            \A r \in readers : pc[r] # "get_rest"

\* ------------------------------------------------------------------------
\* The snapshots behind state_lock: Arc pointers into a heap of snapshots
\* ------------------------------------------------------------------------

\* variant: the writer changes the snapshot the lock points to in place
PublishInPlace(store, new_state) ==
    [store EXCEPT !.heap = [store.heap EXCEPT ![store.guard] = new_state]]

\* let mut rw_snapshot = rw_guard.as_ref().clone(); ...;
\* *rw_guard = Arc::new(rw_snapshot): the changed clone is a new object and
\* the lock points to it
Publish(store, new_state) ==
    [store EXCEPT !.heap = Append(store.heap, new_state),
                  !.guard = Len(store.heap) + 1]

\* the most snapshots readers clone in one run
MaxSnapshots == 2

\* the world the operations see: the snapshot the lock points to
SnapshotWorld ==
    [state |-> iter.heap[iter.guard], memtables |-> iter.memtables,
     sst_counter |-> iter.sst_counter]

\* the store after an operation that returned r
SnapshotInstall(r) ==
    \E published \in { IF r.state = iter.heap[iter.guard] THEN iter
                       ELSE Publish(iter, r.state) } :
       iter' = [published EXCEPT !.memtables = r.memtables,
                                 !.sst_counter = r.sst_counter]

\* StorageState::open; every put after the first rotates the memtable
InitSnapshot ==
    /\ NoStore
    /\ inp \in [sst_max_size_bytes : CloseSstMaxSizes,
                block_max_size_bytes : ThreadBlockMaxSizes,
                num_memtables_limit : CloseNumMemtablesLimits]
    /\ iter = [guard |-> 1,
               heap |-> << [current_memtable |-> 0, frozen_memtables |-> << >>,
                            l0_sst_ids |-> << >>, ssts |-> << >>] >>,
               memtables |-> [id \in {0} |-> NewMemTable(0)],
               sst_counter |-> 1]
    /\ results = << >>

\* scan: Arc::clone(&guard) under the shared lock
SnapshotClone ==
    /\ Len(results) < MaxSnapshots
    /\ results' = Append(results, [ptr |-> iter.guard,
                                   seen |-> iter.heap[iter.guard]])
    /\ UNCHANGED << lsmVars, inp, iter >>

\* put, with the freeze_memtable it may call
SnapshotPut(key, value) ==
    /\ \E r \in { StoragePut(SnapshotWorld, inp, key, value) } :
         /\ r.sst_counter <= MaxId + 1
         /\ SnapshotInstall(r)
    /\ UNCHANGED << lsmVars, inp, results >>

\* flush_next_memtable_to_l0
SnapshotFlush ==
    /\ \E r \in { FlushNextMemtableToL0(SnapshotWorld, inp, {}) } :
         SnapshotInstall(r)
    /\ UNCHANGED << lsmVars, inp, results >>

NextSnapshot ==
    \/ SnapshotClone
    \/ \E key \in ThreadKeys : SnapshotPut(key, ClientValue("c1"))
    \/ SnapshotFlush

SpecSnapshot == InitSnapshot /\ [][NextSnapshot]_vars

\* C26: a snapshot a reader cloned keeps its current memtable, its frozen
\* memtables and its L0 SSTs, whatever freeze_memtable and
\* flush_next_memtable_to_l0 do later
SnapshotsStayAsCloned ==
    \A i \in DOMAIN results : iter.heap[results[i].ptr] = results[i].seen

\* a reader cloned a snapshot, and a rotation and a flush were published
\* after it
SnapshotOutlivedFreezeAndFlush ==
    \E i \in DOMAIN results :
        LET now == iter.heap[iter.guard]
        IN /\ results[i].ptr < iter.guard
           /\ now.current_memtable # results[i].seen.current_memtable
           /\ Len(now.l0_sst_ids) > Len(results[i].seen.l0_sst_ids)

\* C27: the current memtable has a larger id than every frozen memtable, and
\* the ids of the frozen memtables decrease from the front to the back, also
\* when several puts rotate the memtable at once
MemtableIdsDescend ==
    /\ \A i \in DOMAIN state.frozen_memtables :
         state.current_memtable > state.frozen_memtables[i]
    /\ \A i, j \in DOMAIN state.frozen_memtables :
         i < j => state.frozen_memtables[i] > state.frozen_memtables[j]

\* ------------------------------------------------------------------------
\* The flush thread when building the SST file fails
\* ------------------------------------------------------------------------

\* the most errors the flush thread meets in one run
MaxFlushErrors == 2

\* variant: the memtable is taken off frozen_memtables and the snapshot
\* published before the error of File::create is returned
FlushInstallFailsAfterPop ==
    /\ pc[Flusher] = "flush_install"
    /\ WriteLockFree
    /\ Len(results) < MaxFlushErrors
    /\ state' = [state EXCEPT
                   !.frozen_memtables =
                       SubSeq(state.frozen_memtables, 1,
                              Len(state.frozen_memtables) - 1)]
    /\ pc' = [pc EXCEPT ![Flusher] = "flush_failed"]
    /\ SetLocals(Flusher, IdleLocals)
    /\ UNCHANGED << options, sst_counter, memtables, kvmap, nops, ret,
                    readers, storeVars, iterVars >>

\* flush_next_memtable_to_l0: sst_builder.build(..)? returns the error of
\* File::create; the exclusive lock is released and the published snapshot
\* stays, and trigger_flush returns the error to the loop of the thread
FlushInstallFails ==
    /\ pc[Flusher] = "flush_install"
    /\ WriteLockFree
    /\ Len(results) < MaxFlushErrors
    /\ pc' = [pc EXCEPT ![Flusher] = "flush_failed"]
    /\ SetLocals(Flusher, IdleLocals)
    /\ UNCHANGED << options, sst_counter, state, memtables, kvmap, nops, ret,
                    readers, storeVars, iterVars >>

\* variant: the error ends the closure of the thread
FlushLogErrorAndReturn ==
    /\ pc[Flusher] = "flush_failed"
    /\ results' = Append(results, "error during background flush")
    /\ pc' = [pc EXCEPT ![Flusher] = "exited"]
    /\ UNCHANGED << options, sst_counter, state, memtables, kvmap, nops, ret,
                    loc, readers, storeVars, inp, iter >>

\* the loop of the flush thread: if let Err(e) = this.trigger_flush()
\* { eprintln!(..) }, and the select is entered again
FlushLogError ==
    /\ pc[Flusher] = "flush_failed"
    /\ results' = Append(results, "error during background flush")
    /\ pc' = [pc EXCEPT ![Flusher] = "idle"]
    /\ UNCHANGED << options, sst_counter, state, memtables, kvmap, nops, ret,
                    loc, readers, storeVars, inp, iter >>

\* the steps of a put in one client thread
PutStep(t) ==
    \/ \E key \in ThreadKeys : CallPut(t, key, ClientValue(t))
    \/ FreezeNew(t)
    \/ FreezeInstallStep(t)
    \/ PutInsert(t)
    \/ PutAddSize(t)

\* one client that puts and closes the store, and a flush thread whose
\* flushes may fail
NextFlushErr ==
    \/ PutStep("c1")
    \/ CloseSend("c1", "close")
    \/ CloseTake("c1")
    \/ CloseJoin("c1")
    \/ FlusherStep
    \/ FlushInstallFails
    \/ FlushLogError
    \/ FlushThreadExit

SpecFlushErr == InitClose /\ [][NextFlushErr]_vars

\* the flush thread is scheduled while it can take a step, and its select
\* does not pass over a ready end_flush for ever
FairSpecFlushErr ==
    /\ SpecFlushErr
    /\ WF_vars(FlusherStep)
    /\ WF_vars(FlushLogError)
    /\ WF_vars(FlushThreadExit)

\* C24: an error of trigger_flush does not end the flush thread: the thread
\* returns only on the shutdown signal, and after an error it flushes again
\* unless it was told to stop
FlushThreadSurvivesError ==
    /\ [][(pc[Flusher] # "exited" /\ pc'[Flusher] = "exited")
             => (pc[Flusher] = "idle" /\ flush_notifier > 0)]_vars
    /\ (pc[Flusher] = "flush_failed")
           ~> (pc[Flusher] \in { "flush_pick", "exited" })

\* the flush thread logged an error and is publishing an SST
FlushingAfterError ==
    /\ results # << >>
    /\ pc[Flusher] = "flush_install"
    /\ flush_notifier = 0

\* ------------------------------------------------------------------------
\* Sst::get_block_index_for_key, one iteration of its loop a step
\* ------------------------------------------------------------------------

\* variant: the left middle
DivFloor2(n) == n \div 2

\* usize::div_ceil(2): the right middle of the search
DivCeil2(n) == (n + 1) \div 2

\* the first keys the blocks of an SST may have, and the keys looked up
IndexFirstKeys == { <<1>>, <<2>>, <<3>>, <<4>> }

IndexQueryKeys == IndexFirstKeys \cup { <<0>>, <<3, 1>>, <<5>> }

\* the metadata of an SST whose blocks start with the keys of D
MetaBlocksOf(D) ==
    LET keys == SortedKeys(D)
    IN [i \in 1..Len(keys) |->
          [first_key |-> NewTimestampedKey(keys[i]),
           last_key |-> NewTimestampedKey(keys[i]),
           offset |-> 11 * (i - 1)]]

\* let (mut lo, mut hi) = (0, self.meta_blocks.len() - 1)
InitBlockIndex ==
    /\ NoStore
    /\ \E D \in (SUBSET IndexFirstKeys) \ {{}}, key \in IndexQueryKeys :
         inp = [meta_blocks |-> MetaBlocksOf(D), key |-> NewTimestampedKey(key)]
    /\ iter = [lo |-> 0, hi |-> Len(inp.meta_blocks) - 1, res |-> None]
    /\ results = << >>

\* one iteration of while lo < hi
BlockIndexIterate ==
    /\ iter.res = None
    /\ iter.lo < iter.hi
    /\ \E mid \in { DivCeil2(iter.lo + iter.hi) } :
         \E first_key \in { inp.meta_blocks[mid + 1].first_key } :
           iter' = IF TimestampedKeyLess(first_key, inp.key)
                   THEN [iter EXCEPT !.lo = mid]
                   ELSE IF TimestampedKeyLess(inp.key, first_key)
                   THEN [iter EXCEPT !.hi = mid - 1]
                   ELSE [iter EXCEPT !.res = Some(mid)]
    /\ UNCHANGED << lsmVars, inp, results >>

\* the loop is left: (lo + hi).div_ceil(2) is returned
BlockIndexReturn ==
    /\ iter.res = None
    /\ iter.lo >= iter.hi
    /\ iter' = [iter EXCEPT !.res = Some(DivCeil2(iter.lo + iter.hi))]
    /\ UNCHANGED << lsmVars, inp, results >>

NextBlockIndex == BlockIndexIterate \/ BlockIndexReturn

SpecBlockIndex == InitBlockIndex /\ [][NextBlockIndex]_vars

\* the thread that runs the search is scheduled
FairSpecBlockIndex == SpecBlockIndex /\ WF_vars(NextBlockIndex)

\* the 0-based indices of the blocks whose first key is not above key
BlocksAtOrBelow ==
    { i \in 0..(Len(inp.meta_blocks) - 1) :
        ~TimestampedKeyLess(inp.key, inp.meta_blocks[i + 1].first_key) }

\* C31: the search returns, and what it returns is the largest index of a
\* block whose first key is not above the key, or 0 when there is none
BlockIndexIsLastAtOrBelow ==
    /\ <>(iter.res # None)
    /\ [](iter.res # None =>
            /\ iter.res[1] \in 0..(Len(inp.meta_blocks) - 1)
            /\ BlocksAtOrBelow = {} => iter.res[1] = 0
            /\ BlocksAtOrBelow # {} =>
                 /\ iter.res[1] \in BlocksAtOrBelow
                 /\ \A i \in BlocksAtOrBelow : i <= iter.res[1])

\* the search over four blocks returned the index of the third, whose first
\* key is below the key while the fourth's is above
BlockIndexFoundInnerBlock ==
    /\ Len(inp.meta_blocks) = 4
    /\ inp.key.key = <<3, 1>> \/ inp.key.key = <<3>>
    /\ iter.res = Some(2)
    /\ iter.lo > 0

\* ------------------------------------------------------------------------
\* One SST builder: entries added in key order, then build
\* ------------------------------------------------------------------------

\* block sizes that put every entry in a block of its own, two or three
\* entries in a block, and every entry in one block
SstBuildBlockSizes == { 4, 21, 30, 64 }

\* SSTBuilder::new
InitSstBuild ==
    /\ NoStore
    /\ inp \in [f : BlockMaps, block_size : SstBuildBlockSizes]
    /\ iter = [stage |-> "add", sb |-> NewSSTBuilder(inp.block_size),
               offered |-> 0, sst |-> None]
    /\ results = << >>

\* SSTBuilder::add of the next entry
SstBuildAdd ==
    /\ iter.stage = "add"
    /\ iter.offered < Len(BlockInput(inp.f))
    /\ \E added \in { SSTBuilderAdd(iter.sb, BlockInput(inp.f)[iter.offered + 1]) } :
         iter' = [iter EXCEPT
                    !.stage = IF added.ok THEN "add" ELSE "failed",
                    !.sb = added.sb,
                    !.offered = iter.offered + 1]
    /\ UNCHANGED << lsmVars, inp, results >>

\* SSTBuilder::build once every entry is added
SstBuildBuild ==
    /\ iter.stage = "add"
    /\ iter.offered = Len(BlockInput(inp.f))
    /\ iter' = [iter EXCEPT !.stage = "built",
                            !.sst = Some(SSTBuilderBuild(iter.sb, 0, {}))]
    /\ UNCHANGED << lsmVars, inp, results >>

NextSstBuild == SstBuildAdd \/ SstBuildBuild

SpecSstBuild == InitSstBuild /\ [][NextSstBuild]_vars

\* the block that the data region holds from the offset of record i on, up
\* to the offset of the next record or the end of the data region
BlockAtRecord(sst, i) ==
    BlockDecode(Slice(sst.file, sst.meta_blocks[i].offset,
                      IF i < Len(sst.meta_blocks)
                      THEN sst.meta_blocks[i + 1].offset
                      ELSE sst.meta_block_offset))

RECURSIVE EntriesOfRecords(_, _)
EntriesOfRecords(sst, i) ==
    IF i > Len(sst.meta_blocks) THEN << >>
    ELSE BlockEntries(BlockAtRecord(sst, i)) \o EntriesOfRecords(sst, i + 1)

\* C32: after build every metadata record gives the offset at which its block
\* starts and the first and last key of that block, the blocks do not overlap
\* in key order, and the blocks together hold the entries added, in order
MetadataDescribesBlocks ==
    iter.stage # "add" =>
        /\ iter.stage = "built"
        /\ LET sst == iter.sst[1]
               meta == sst.meta_blocks
           IN /\ meta[1].offset = 0
              /\ \A i \in 1..(Len(meta) - 1) :
                   /\ meta[i].offset < meta[i + 1].offset
                   /\ TimestampedKeyLess(meta[i].last_key, meta[i + 1].first_key)
              /\ \A i \in DOMAIN meta :
                   LET entries == BlockEntries(BlockAtRecord(sst, i))
                   IN /\ entries # << >>
                      /\ meta[i].first_key = entries[1].key
                      /\ meta[i].last_key = entries[Len(entries)].key
              /\ EntriesOfRecords(sst, 1) = BlockInput(inp.f)

\* an SST of two blocks with two entries each was built
BuiltTwoBlocksOfTwo ==
    /\ iter.stage = "built"
    /\ Len(iter.sst[1].meta_blocks) = 2
    /\ \A i \in 1..2 : Len(BlockAtRecord(iter.sst[1], i).offsets) = 2

\* ------------------------------------------------------------------------
\* BlockBuilder::add by the lengths of what it is given
\* ------------------------------------------------------------------------

\* the largest u16
U16Max == 65535

\* BlockBuilder::new, with the lengths of data, offsets and first_key in
\* place of their contents
NewBlockBuilderLens(block_size) ==
    [data_len |-> 0, offsets_len |-> 0, current_offset |-> 0,
     block_size |-> block_size, first_key_len |-> 0]

\* BlockBuilder::get_block_size
GetBlockSizeLens(bb) == bb.data_len + 2 * bb.offsets_len + 2

\* BlockBuilder::get_block_size_with_kv
GetBlockSizeWithKvLens(bb, key_len, value_len) ==
    IF GetBlockSizeLens(bb) = 0
    THEN 2 + key_len + 2 + value_len + 2
    ELSE GetBlockSizeLens(bb) + 4 + key_len + 2 + value_len + 2

\* BlockBuilder::add of an entry whose key has key_len bytes, of which
\* overlap are shared with the first key, and whose value has value_len
\* bytes; every u16::try_from(..)? returns early with what was changed so far
BlockBuilderAddLens(bb, key_len, overlap, value_len) ==
    IF bb.data_len # 0
       /\ GetBlockSizeWithKvLens(bb, key_len, value_len) > bb.block_size
    THEN [ok |-> FALSE, bb |-> bb]
    ELSE
      LET is_first == bb.first_key_len = 0
          bb1 == IF is_first THEN [bb EXCEPT !.first_key_len = key_len] ELSE bb
          key_overlap_len == IF is_first THEN 0 ELSE overlap
          rest_key_len == key_len - key_overlap_len
          key_as_bytes_len == IF is_first THEN 2 + key_len ELSE 4 + rest_key_len
          kv_as_bytes_len == key_as_bytes_len + 2 + value_len
          bb2 == [bb1 EXCEPT !.offsets_len = bb1.offsets_len + 1]
      IN IF is_first /\ key_len > U16Max
         THEN [ok |-> FALSE, bb |-> bb1]
         ELSE IF ~is_first /\ (key_overlap_len > U16Max \/ rest_key_len > U16Max)
         THEN [ok |-> FALSE, bb |-> bb1]
         ELSE IF value_len > U16Max
         THEN [ok |-> FALSE, bb |-> bb1]
         ELSE IF kv_as_bytes_len > U16Max
         THEN [ok |-> FALSE, bb |-> bb2]
         ELSE [ok |-> TRUE,
               bb |-> [bb2 EXCEPT
                         !.current_offset =
                             (bb2.current_offset + kv_as_bytes_len) % (U16Max + 1),
                         !.data_len = bb2.data_len + kv_as_bytes_len]]

\* the most entries offered to one builder
MaxAdds == 3

\* target block sizes, and lengths of keys and values: small ones and ones
\* at the end of the u16 range
LensBlockSizes == { 12, 21, 200000 }

KeyLens == { 1, 2, 40000, 65536 }

ValueLens == { 0, 2, 40000 }

InitBlockLens ==
    /\ NoStore
    /\ inp \in [block_size : LensBlockSizes]
    /\ iter = NewBlockBuilderLens(inp.block_size)
    /\ results = << >>

\* one call of add
BlockAddLens(key_len, overlap, value_len) ==
    /\ Len(results) < MaxAdds
    /\ \E added \in { BlockBuilderAddLens(iter, key_len, overlap, value_len) } :
         /\ iter' = added.bb
         /\ results' = Append(results,
                [ok |-> added.ok, before |-> iter, after |-> added.bb,
                 key_len |-> key_len, value_len |-> value_len])
    /\ UNCHANGED << lsmVars, inp >>

NextBlockLens ==
    \E key_len \in KeyLens, value_len \in ValueLens :
       \E overlap \in { 0, IF key_len < iter.first_key_len THEN key_len
                           ELSE iter.first_key_len } :
          BlockAddLens(key_len, overlap, value_len)

SpecBlockLens == InitBlockLens /\ [][NextBlockLens]_vars

\* C33: add accepts the first entry of an empty builder, rejects a later
\* entry exactly when the size with the entry exceeds the target block size,
\* and a rejected add leaves data, offsets and the reported size as they were
AddAcceptsUnlessFull ==
    \A i \in DOMAIN results :
        LET r == results[i]
        IN /\ r.before.data_len = 0 => r.ok
           /\ r.before.data_len # 0 =>
                (~r.ok <=> GetBlockSizeLens(r.before) + 4 + r.key_len + 2
                              + r.value_len + 2 > r.before.block_size)
           /\ ~r.ok => /\ r.after.data_len = r.before.data_len
                       /\ r.after.offsets_len = r.before.offsets_len
                       /\ GetBlockSizeLens(r.after) = GetBlockSizeLens(r.before)

\* ------------------------------------------------------------------------
\* Merging iterators over an SST iterator whose block load failed
\* ------------------------------------------------------------------------

\* SSTIterator::next when load_block_to_mem returns an error: the iterator
\* becomes invalid and returns the entry it was at
SSTIteratorNextLoadFails(it) ==
    IF /\ it.is_valid
       /\ it.block_index < Len(it.sst.meta_blocks)
       /\ it.current_kv # None
       /\ ~BytesLess(it.current_kv[1].key.key,
                     it.sst.meta_blocks[it.block_index + 1].last_key.key)
       /\ it.block_index + 1 < Len(it.sst.meta_blocks)
    THEN [it |-> [it EXCEPT !.block_index = it.block_index + 1,
                            !.is_valid = FALSE],
          res |-> it.current_kv]
    ELSE SSTIteratorNext(it)

\* the iterator after n calls of next
RECURSIVE SSTIteratorAdvance(_, _)
SSTIteratorAdvance(it, n) ==
    IF n = 0 THEN it ELSE SSTIteratorAdvance(SSTIteratorNext(it).it, n - 1)

\* a memtable for X, and for Y an SST with a block for every entry whose
\* iterator had a block load fail after some calls of next
InitInvalid ==
    /\ NoStore
    /\ inp \in [x : SourceMaps, y : [ThreadKeys -> SourceValues], nexts : 0..1]
    /\ \E failed \in { SSTIteratorNextLoadFails(
                          SSTIteratorAdvance(
                              SSTIteratorCreateAndSeekToFirst(SstOf(inp.y, 4, {})),
                              inp.nexts)).it } :
         iter = NewTwoMergeIterator(
                    NewMergeIterator(SourceIterators(<< inp.x >>)),
                    NewMergeIterator(<< NewBoundedIterator(failed, Unbounded) >>))
    /\ results = << >>

\* is_valid, then next
InvalidNext ==
    /\ Len(results) < MaxIterCalls
    /\ \E stepped \in { TwoMergeIteratorNext(iter) } :
         /\ iter' = stepped.it
         /\ results' = Append(results, [is_valid |-> iter.is_valid,
                                        next |-> stepped.res])
    /\ UNCHANGED << lsmVars, inp >>

NextInvalid == InvalidNext

SpecInvalid == InitInvalid /\ [][NextInvalid]_vars

\* C34: a merging iterator over an invalid sub-iterator is invalid itself,
\* from the start on, and an invalid merging iterator yields nothing
TruncationIsObservable ==
    /\ (\E i \in 1..2 : ~iter.sub_iters[i].is_valid) => ~iter.is_valid
    /\ \A i \in DOMAIN results : ~results[i].is_valid => results[i].next = None

FrozenMemtablesKeepEntries ==
    [][/\ ret' # "MemtableImmutable"
       /\ \A id \in (DOMAIN memtables) \cap (DOMAIN memtables') :
             ~memtables[id].mutable
                => /\ ~memtables'[id].mutable
                   /\ memtables'[id].entries = memtables[id].entries]_vars

\* a put inserts into the current memtable while the flush thread is draining
\* a frozen memtable that holds entries and another put waits to rotate
PutDuringDrain ==
    /\ pc[Flusher] = "flush_build"
    /\ \E t \in Clients : pc[t] = "put_size"
    /\ \E t \in Clients : pc[t] = "freeze_install"
    /\ \E key \in ThreadKeys :
          MemTableGet(memtables[loc[Flusher].picked[1]], key) # None


\* ------------------------------------------------------------------------
\* Two callers of flush_next_memtable_to_l0: the flush thread through
\* trigger_flush and a client through flush_all_memtables
\* ------------------------------------------------------------------------

\* where flush_next_memtable_to_l0 returns to: the flush thread's select loop,
\* or the length test of the loop in flush_all_memtables
AfterFlushNext(t) == IF t = Flusher THEN "idle" ELSE "flush_all_len"

\* flush_all_memtables called; it begins with freeze_memtable
CallFlushAll(t) ==
    /\ pc[t] = "idle"
    /\ nops < MaxCalls
    /\ nops' = nops + 1
    /\ pc' = [pc EXCEPT ![t] = "flush_all_new"]
    /\ SetLocals(t, [IdleLocals EXCEPT !.op = "flush_all"])
    /\ UNCHANGED << options, sst_counter, state, memtables, kvmap, ret, readers >>
    /\ UNCHANGED << iterVars, storeVars >>

\* flush_all_memtables, freeze_memtable: MemTable::new(self.get_next_sst_id())
FlushAllFreezeNew(t) ==
    /\ pc[t] = "flush_all_new"
    /\ sst_counter <= MaxId
    /\ LET next == GetNextSstId(sst_counter)
       IN /\ sst_counter' = next.counter
          /\ SetLocals(t, [loc[t] EXCEPT !.new_id = next.id])
    /\ pc' = [pc EXCEPT ![t] = "flush_all_freeze"]
    /\ UNCHANGED << options, state, memtables, kvmap, nops, ret, readers >>
    /\ UNCHANGED << iterVars, storeVars >>

\* flush_all_memtables, freeze_memtable: the rotation under the exclusive lock
FlushAllFreezeInstall(t) ==
    /\ pc[t] = "flush_all_freeze"
    /\ WriteLockFree
    /\ LET inst == FreezeInstall(state, memtables, NewMemTable(loc[t].new_id))
       IN /\ state' = inst.state
          /\ memtables' = inst.memtables
          /\ IF inst.ok
             THEN /\ pc' = [pc EXCEPT ![t] = "flush_all_len"]
                  /\ UNCHANGED << ret, loc >>
             ELSE /\ pc' = [pc EXCEPT ![t] = "idle"]
                  /\ ret' = "MemtableImmutable"
                  /\ SetLocals(t, IdleLocals)
    /\ UNCHANGED << options, sst_counter, kvmap, nops, readers >>
    /\ UNCHANGED << iterVars, storeVars >>

\* flush_all_memtables: the loop reads frozen_memtables.len() under the shared
\* lock and ends when it is 0
FlushAllLen(t) ==
    /\ pc[t] = "flush_all_len"
    /\ IF Len(state.frozen_memtables) = 0
       THEN /\ pc' = [pc EXCEPT ![t] = "idle"]
            /\ ret' = "Ok"
            /\ SetLocals(t, IdleLocals)
       ELSE /\ pc' = [pc EXCEPT ![t] = "flush_pick"]
            /\ UNCHANGED << ret, loc >>
    /\ UNCHANGED << options, sst_counter, state, memtables, kvmap, nops, readers >>
    /\ UNCHANGED << iterVars, storeVars >>

\* flush_next_memtable_to_l0 run by thread t: the back of frozen_memtables
\* cloned under the shared lock; the clone keeps the memtable alive
FlushNextPick(t) ==
    /\ pc[t] = "flush_pick"
    /\ LET picked == FlushPick(state)
       IN /\ pc' = [pc EXCEPT ![t] =
                      IF picked = None THEN AfterFlushNext(t) ELSE "flush_build"]
          /\ SetLocals(t, [loc[t] EXCEPT !.picked = picked])
    /\ UNCHANGED << options, sst_counter, state, memtables, kvmap, nops, ret,
                    readers >>
    /\ UNCHANGED << iterVars, storeVars >>

\* flush_next_memtable_to_l0 run by thread t: the builder filled, no lock held
FlushNextBuild(t) ==
    /\ pc[t] = "flush_build"
    /\ LET built == FlushBuild(memtables[loc[t].picked[1]],
                               options.block_max_size_bytes)
       IN IF built.ok
          THEN /\ pc' = [pc EXCEPT ![t] = "flush_install"]
               /\ SetLocals(t, [loc[t] EXCEPT !.sb = Some(built.sb)])
               /\ UNCHANGED ret
          ELSE /\ pc' = [pc EXCEPT ![t] = "idle"]
               /\ ret' = IF t = Flusher THEN ret ELSE "FlushError"
               /\ SetLocals(t, IdleLocals)
    /\ UNCHANGED << options, sst_counter, state, memtables, kvmap, nops,
                    readers >>
    /\ UNCHANGED << iterVars, storeVars >>

\* flush_next_memtable_to_l0 run by thread t: under the exclusive lock the SST
\* of the memtable picked earlier is pushed and frozen_memtables.pop_back()
\* removes whatever is at the back now
FlushNextInstall(t) ==
    /\ pc[t] = "flush_install"
    /\ WriteLockFree
    /\ \E fp \in { {} } :
         state' = FlushInstall(state, memtables[loc[t].picked[1]],
                               loc[t].sb[1], fp)
    /\ pc' = [pc EXCEPT ![t] = AfterFlushNext(t)]
    /\ SetLocals(t, [loc[t] EXCEPT !.picked = None, !.sb = None])
    /\ UNCHANGED << options, sst_counter, memtables, kvmap, nops, ret, readers >>
    /\ UNCHANGED << iterVars, storeVars >>

\* one client that puts and calls flush_all_memtables, beside the flush thread
NextTwoFlush ==
    \/ PutStep("c1")
    \/ CallFlushAll("c1")
    \/ FlushAllFreezeNew("c1")
    \/ FlushAllFreezeInstall("c1")
    \/ FlushAllLen("c1")
    \/ TriggerFlush
    \/ \E t \in {"c1", Flusher} : FlushNextPick(t)
    \/ \E t \in {"c1", Flusher} : FlushNextBuild(t)
    \/ \E t \in {"c1", Flusher} : FlushNextInstall(t)

SpecTwoFlush == InitThreads /\ [][NextTwoFlush]_vars

\* the ids in a sequence of ids
IdsOf(ids) == { ids[i] : i \in 1..Len(ids) }

\* C37: with the flush thread and a client both flushing, a memtable leaves
\* frozen_memtables only once an L0 SST with its id has been installed, no id
\* appears twice in l0_sst_ids, and every get answers what was last written.
ConcurrentFlushesKeepWrites ==
    /\ [](\A i, j \in 1..Len(state.l0_sst_ids) :
             state.l0_sst_ids[i] = state.l0_sst_ids[j] => i = j)
    /\ [](\A key \in Keys : StorageGet(state, memtables, key) = Expected(key))
    /\ [][\A id \in IdsOf(state.frozen_memtables) :
             id \notin IdsOf(state'.frozen_memtables)
                => id \in IdsOf(state'.l0_sst_ids)]_vars


\* C38: every memtable that a put has moved into frozen_memtables holds at
\* least one entry, also when several threads put at the same time.
PutFreezesOnlyFilledMemtables ==
    \A i \in 1..Len(state.frozen_memtables) :
       \E key \in Keys :
          MemTableGet(memtables[state.frozen_memtables[i]], key) # None


\* ------------------------------------------------------------------------
\* Lock use of the client operations and the flush thread
\* ------------------------------------------------------------------------

\* the most client calls started in one run of the lock-use specification
MaxStarts == 3

\* scan: the read guard taken, the snapshot Arc cloned, the guard dropped at
\* the end of the block
ScanClone(t) ==
    /\ pc[t] = "idle"
    /\ nops' = nops + 1
    /\ pc' = [pc EXCEPT ![t] = "scan_build"]
    /\ SetLocals(t, [IdleLocals EXCEPT !.op = "scan", !.res = Some(state)])
    /\ UNCHANGED << options, sst_counter, state, memtables, kvmap, ret, readers >>
    /\ UNCHANGED << iterVars, storeVars >>

\* scan: the iterators built from the cloned snapshot with no lock held; the
\* iterator goes to the caller
ScanBuild(t) ==
    /\ pc[t] = "scan_build"
    /\ pc' = [pc EXCEPT ![t] = "idle"]
    /\ ret' = "Ok"
    /\ SetLocals(t, IdleLocals)
    /\ UNCHANGED << options, sst_counter, state, memtables, kvmap, nops, readers >>
    /\ UNCHANGED << iterVars, storeVars >>

\* the key the clients work on when the use of the lock is what matters
LockKeys == { << 2 >> }

\* a client starts one of get, put, delete, scan
StartStep(t) ==
    /\ nops < MaxStarts
    /\ \/ \E key \in LockKeys : CallPut(t, key, ClientValue(t))
       \/ \E key \in LockKeys : CallGet(t, key)
       \/ \E key \in LockKeys : CallDelete(t, key)
       \/ ScanClone(t)

\* a client goes on with the operation it is in; no lock is asked for that
\* another thread can hold for ever
ContinueStep(t) ==
    \/ FreezeNew(t)
    \/ PutInsert(t)
    \/ PutAddSize(t)
    \/ GetRest(t)
    \/ DeleteAfterGet(t)
    \/ DeletePut(t)
    \/ ScanBuild(t)

NextLocks ==
    \/ \E t \in Clients : StartStep(t)
    \/ \E t \in Clients : ContinueStep(t)
    \/ \E t \in Clients : FreezeInstallStep(t)
    \/ TriggerFlush
    \/ FlushPickStep
    \/ FlushBuildStep
    \/ FlushInstallStep

SpecLocks == InitClose /\ [][NextLocks]_vars

\* the positions of a thread
ThreadPcs ==
    { "idle", "freeze_new", "freeze_install", "put_insert", "put_size",
      "get_rest", "put_start", "scan_build", "flush_pick", "flush_build",
      "flush_install" }

\* thread t, inside an operation, moves on to its next position; where it
\* asks for the exclusive lock it moves on only if no reader holds the lock
ThreadRuns(t) ==
    /\ pc[t] # "idle"
    /\ pc[t] \in {"freeze_install", "flush_install"} => WriteLockFree
    /\ \E p \in ThreadPcs \ { pc[t] } : pc' = [pc EXCEPT ![t] = p]

\* every thread keeps running, and a thread that waits for the exclusive lock
\* gets it once the lock stays free
FairSpecLocks == SpecLocks /\ \A t \in Threads : WF_pc(ThreadRuns(t))

\* C39: a thread holds the shared lock only inside get and inside the insert
\* of put, where it asks for no lock, and every operation that has started
\* returns: get, put, delete and scan to the client, trigger_flush and
\* flush_next_memtable_to_l0 to the flush thread's loop.
StartedOperationsReturn ==
    /\ [](\A t \in readers : pc[t] \in {"get_rest", "put_size"})
    /\ \A t \in Threads : (pc[t] # "idle") ~> (pc[t] = "idle")

\* a put or the flush thread waits for the exclusive lock while a client reads
\* under the shared lock
WriterWaitsForReader ==
    /\ pc["c1"] = "freeze_install" \/ pc[Flusher] = "flush_install"
    /\ pc["c2"] = "get_rest"
    /\ "c2" \in readers


\* ------------------------------------------------------------------------
\* The flush thread after the clients have stopped writing
\* ------------------------------------------------------------------------

\* the store opened with a flush thread; every put after the first rotates
InitDrain ==
    /\ options \in [sst_max_size_bytes : CloseSstMaxSizes,
                    block_max_size_bytes : ThreadBlockMaxSizes,
                    num_memtables_limit : NumMemtablesLimits]
    /\ InitStore
    /\ flush_thread = Some(Flusher)

\* one client that puts a bounded number of times, and the flush thread
NextDrain == PutStep("c1") \/ FlusherStep

SpecDrain == InitDrain /\ [][NextDrain]_vars

\* the ticker keeps firing, the flush thread and the client keep running
FairSpecDrain ==
    /\ SpecDrain
    /\ WF_pc(TriggerFlush)
    /\ WF_pc(ThreadRuns(Flusher))
    /\ WF_pc(ThreadRuns("c1"))

\* C40: once the client has stopped putting, the number of frozen memtables
\* falls below num_memtables_limit and stays there, and a memtable leaves
\* frozen_memtables only while their number has reached the limit: what stays
\* below the limit is not flushed by the flush thread.
FrozenSettlesBelowLimit ==
    /\ <>[](Len(state.frozen_memtables) < options.num_memtables_limit)
    /\ [][Len(state'.frozen_memtables) < Len(state.frozen_memtables)
             => Len(state.frozen_memtables) >= options.num_memtables_limit]_vars
    /\ [][pc[Flusher] = "idle" /\ pc'[Flusher] # "idle"
             => Len(state.frozen_memtables) >= options.num_memtables_limit]_vars

\* the client is done, the flush thread has flushed down to one frozen
\* memtable under a limit of 2 and rests
FrozenMemtableLeftBelowLimit ==
    /\ nops = MaxCalls
    /\ \A t \in Threads : pc[t] = "idle"
    /\ options.num_memtables_limit = 2
    /\ Len(state.frozen_memtables) = 1
    /\ state.l0_sst_ids # << >>

====
